---- MODULE Spec2Model ----
(***************************************************************************)
(* State-machine model of the pocket task-graph engine:                    *)
(*   src/src/pocket-flow-framework.ts  (BaseNode, RetryNode, Flow,         *)
(*                                      BatchFlow)                         *)
(*   src/pocketgraph/__init__.ts       (BaseNode, Node, AsyncNode, the     *)
(*                                      batch nodes, Flow, AsyncFlow and   *)
(*                                      the batch flows)                   *)
(*   src/typescript/nodes.ts           (AsyncNode, the batch nodes,        *)
(*                                      AsyncFlow and its batch flows)     *)
(* with the unit classes of src/tests/pocket.test.ts as concrete units.    *)
(* Spec is one caller running one graph; SpecPar is concurrent callers,    *)
(* batch flows and batch nodes, each orchestrate call of a batch flow and  *)
(* each item call of a batch node being a thread of its own.               *)
(* SpecFair is Spec with weak fairness of the steps of a started run.      *)
(***************************************************************************)
EXTENDS Integers, Sequences, FiniteSets, TLC

\* ---------------------------------------------------------------- bounds
MaxCalls == 1            \* construction calls on the generic units per behaviour
MaxSteps == 3            \* units started by orchestrate per behaviour
MaxRetriesBound == 2     \* largest maxRetries a retrying unit is constructed with
MaxItems == 2            \* longest list of parameter sets a batch prep returns

\* ------------------------------------------------------------- constants
DEFAULT_ACTION == "default"
Undefined == "undefined"     \* the JS value undefined, where a string is expected
NoNode == ""                 \* no object (undefined reference)

Tasks == {"main"}             \* the caller's thread of a single run
Br == <<"b1", "b2", "b3", "b4">>     \* the promise of the i-th orchestrate call of a batch
Threads == {"main", "second"} \cup {Br[i] : i \in 1..Len(Br)}
Impls == {"fw", "pg"}        \* pocket-flow-framework.ts / pocketgraph; some
                             \* scenarios add "nt", the classes of nodes.ts
Scenarios == {"gen", "branch", "nested", "retry", "cycle", "anest", "conc", "batch",
              "bnode", "concw", "label", "race", "spin"}
NodeIds == {"F", "FI", "A", "R", "FB", "Num", "Check", "AddPos", "AddNeg",
            "FW", "FM", "FN", "Add3", "Mul4", "FC", "Fl", "BF", "T", "FR",
            "FY", "Sub3", "NoOp", "FO", "FA", "BN", "FP",
            "FL", "Nm", "Rg", "Nm2", "BR", "Inc", "FS", "Tick", "Tock"}
Labels == {"default", "a", "positive", "negative"}

\* a parameter map over the keys delay and k; 0 stands for an absent key
NoParams == [delay |-> 0, k |-> 0]
ParamSets == {NoParams, [delay |-> 3, k |-> 1]}

NoVal == [tag |-> "undefined", id |-> "", n |-> 0]
NullVal == [tag |-> "null", id |-> "", n |-> 0]
NoErr == [type |-> "none", id |-> "", n |-> 0]
NoSuccessors == [l \in Labels |-> NoNode]
NoCall == [op |-> "", u |-> NoNode, v |-> NoNode, l |-> "", action |-> "",
           had |-> FALSE, threw |-> FALSE]
NoObj == [id |-> NoNode, cls |-> "", clone |-> FALSE, flow_params |-> NoParams,
          attempt |-> 0, curRetry |-> 0, successors |-> NoSuccessors]

VARIABLES
    cfg,        \* constructor arguments of the scenario's objects
    heap,       \* the wired objects: flow_params and successors of each
    calls,      \* number of construction calls made
    lastCall,   \* the last construction call and whether it threw
    firstReg,   \* per unit and label, the first successor ever registered
    shared,     \* the caller's shared state object
    status,     \* per task: idle, running, resolved, rejected
    stack,      \* per task: the chain of pending calls, innermost last
    result,     \* per task: label returned by, or error thrown from, the entry call
    logs,       \* per thread: every phase invocation it made, in order
    steps,      \* units started by orchestrate so far
    travs       \* orchestrate invocations so far

vars == <<cfg, heap, calls, lastCall, firstReg, shared, status, stack, result,
          logs, steps, travs>>

\* the phase invocations of the caller's thread
log == logs["main"]
Appended(t, e) == [logs EXCEPT ![t] = Append(logs[t], e)]

\* ------------------------------------------------------ the objects built
ScenarioNodes(s) ==
    CASE s = "gen" -> {"F", "FI", "A", "R"}
      [] s = "branch" -> {"FB", "Num", "Check", "AddPos", "AddNeg"}
      [] s = "nested" -> {"FW", "FM", "FN", "Num", "Add3", "Mul4"}
      [] s = "retry" -> {"FR", "R", "A"}
      [] s = "cycle" -> {"FY", "Num", "Check", "Sub3", "NoOp"}
      [] s = "anest" -> {"FO", "FA", "Num", "Add3", "Mul4"}
      [] s = "conc" -> {"FC", "Fl"}
      [] s = "bnode" -> {"BN"}
      [] s = "concw" -> {"FP", "Fl"}
      [] s = "label" -> {"FL", "Nm", "Rg", "Nm2"}
      [] s = "race" -> {"BR", "Inc"}
      [] s = "spin" -> {"FS", "Tick", "Tock"}
      [] OTHER -> {"BF", "A", "T", "AddPos"}

\* runtime class of the wired object
ClassOf(id) ==
    CASE id = "F" -> "CustomFlow"      \* a Flow subclass that overrides post
      [] id \in {"FI", "FB", "FW", "FM", "FN", "FC", "FR", "FY", "FS"} -> "Flow"
      [] id \in {"FO", "FP", "FL"} -> "AsyncFlow"
      [] id \in {"Nm", "Nm2"} -> "Named"     \* an AsyncNode whose post returns a
                                            \* label chosen by the caller
      [] id = "Rg" -> "Regular"             \* a unit that is not an AsyncNode
      [] id = "Inc" -> "Increment"          \* prep reads shared.value, post
                                            \* writes the value read plus one
      [] id \in {"BF", "FA", "BN", "BR"} -> cfg.batchCls   \* a batch class whose prep
                                          \* returns the items, or AsyncFlow
      [] id = "Fl" -> "Flaky"
      [] id = "T" -> "Template"
      [] id = "A" -> "Generic"
      [] id = "R" -> "GenericRetry"
      [] id = "Num" -> "Number"
      [] id = "Check" -> "Check"
      [] id = "Mul4" -> "Multiply"
      [] id = "Sub3" -> "Subtract"
      [] id \in {"NoOp", "Tick", "Tock"} -> "NoOp"
      [] OTHER -> "Add"

BatchClasses == {"BatchFlow", "AsyncBatchFlow", "AsyncParallelBatchFlow"}
IsBatchClass(cls) == cls \in BatchClasses
IsFlowClass(cls) == cls \in {"Flow", "CustomFlow", "AsyncFlow"} \cup BatchClasses
IsAsyncFlowClass(cls) == cls \in {"AsyncFlow", "AsyncBatchFlow", "AsyncParallelBatchFlow"}
BatchNodeClasses == {"BatchNode", "AsyncBatchNode", "AsyncParallelBatchNode"}
IsRetryClass(cls) == cls \in {"GenericRetry", "Flaky"} \cup BatchNodeClasses

\* constructor fields, preserved by _clone
StartOf(id) ==
    CASE id = "F" -> cfg.startF
      [] id = "FI" -> "A"
      [] id = "FB" -> "Num"
      [] id = "FW" -> "FM"
      [] id = "FM" -> "FN"
      [] id = "FN" -> "Num"
      [] id \in {"FC", "FP"} -> "Fl"
      [] id = "FR" -> "R"
      [] id = "FY" -> "Num"
      [] id = "FO" -> cfg.startF
      [] id = "FA" -> "Add3"
      [] id = "FL" -> "Nm"
      [] id = "FS" -> "Tick"
      [] id = "BR" -> "Inc"
      [] id = "BF" -> cfg.startB
      [] OTHER -> NoNode

ArgOf(id) ==
    CASE id = "Num" -> cfg.numValue
      [] id = "AddPos" -> 10
      [] id = "AddNeg" -> -20
      [] id = "Add3" -> 3
      [] id = "Mul4" -> 4
      [] id = "Sub3" -> 3
      [] OTHER -> 0

MaxRetriesOf(id) == cfg.maxRetries

\* ------------------------------------------------------------ BaseNode
\* _clone of each class: a Flow of any subclass comes back as a plain Flow
CloneClass(cls) == IF IsFlowClass(cls) THEN "Flow" ELSE cls

\* mutation: the copy starts with an empty successor table
clone_noSuccessors(obj) ==
    [id |-> obj.id, cls |-> CloneClass(obj.cls), clone |-> TRUE,
     flow_params |-> obj.flow_params, attempt |-> 0, curRetry |-> 0,
     successors |-> NoSuccessors]

\* clone: _clone() builds a new object from the constructor arguments (its
\* other fields start afresh), then flow_params and successors are copied
clone(obj) ==
    [id |-> obj.id, cls |-> CloneClass(obj.cls), clone |-> TRUE,
     flow_params |-> obj.flow_params, attempt |-> 0, curRetry |-> 0,
     successors |-> obj.successors]

\* pocketgraph: Object.assign(Object.create(getPrototypeOf(n)), n)
ShallowCopy_none(obj) == obj

ShallowCopy(obj) == [obj EXCEPT !.clone = TRUE]

\* the fields of the object a reference designates: a copy carries its own,
\* the wired original's are in the heap
ParamsOf(obj) == IF obj.clone THEN obj.flow_params ELSE heap[obj.id].flow_params
AttemptOf(obj) == IF obj.clone THEN obj.attempt ELSE heap[obj.id].attempt

\* mutation: the lookup ignores the returned label and follows "default"
getSuccessor_defaultOnly(obj, name) ==
    IF obj.successors[DEFAULT_ACTION] = NoNode
    THEN NoObj
    ELSE clone(heap[obj.successors[DEFAULT_ACTION]])

\* mutation: an unregistered label falls back to the "default" successor
getSuccessor_fallback(obj, name) ==
    IF name \in Labels /\ obj.successors[name] # NoNode
    THEN clone(heap[obj.successors[name]])
    ELSE IF obj.successors[DEFAULT_ACTION] # NoNode
    THEN clone(heap[obj.successors[DEFAULT_ACTION]])
    ELSE NoObj

getSuccessor(obj, name) ==
    IF name \notin Labels \/ obj.successors[name] = NoNode
    THEN NoObj
    ELSE clone(heap[obj.successors[name]])

\* pocketgraph Flow.getNextNode followed by the copy made in _orch
\* names every plain object inherits from Object.prototype
InheritedNames == {"constructor", "toString"}

\* the value found under an inherited name: a function, not a unit
PrototypeMember == [NoObj EXCEPT !.cls = "Function"]

\* successors is a plain object ({}), read with successors[action || "default"]:
\* a name with no entry of its own is looked up on Object.prototype
getNextNode(curr, action) ==
    LET key == IF action = Undefined \/ action = "" THEN "default" ELSE action
    IN  IF key \in Labels /\ curr.successors[key] # NoNode
        THEN ShallowCopy(heap[curr.successors[key]])
        ELSE IF key \in InheritedNames
        THEN [PrototypeMember EXCEPT !.clone = TRUE]
        ELSE NoObj

\* the label an omitted action argument stands for
ActionArg(l) == IF l = Undefined THEN DEFAULT_ACTION ELSE l

\* mutation: a registered label is silently overwritten
addSuccessorThrows_never(impl, u, action) == FALSE

\* does addSuccessor(_, action) on u throw?
addSuccessorThrows(impl, u, action) ==
    impl = "fw" /\ heap[u].successors[action] # NoNode

AllowedCalls(s) ==
    IF s = "gen"
    THEN {<<u, v, l>> : u \in {"A", "R", "FI"}, v \in {"A", "R", "FI"},
                        l \in {"default", Undefined}}
         \cup {<<"A", v, "a">> : v \in {"A", "R", "FI"}}
    ELSE IF s = "branch"
    THEN {<<"Num", "Check", "default">>, <<"Check", "AddPos", "positive">>,
          <<"Check", "AddNeg", "negative">>, <<"Check", "AddNeg", "positive">>,
          <<"Num", "AddPos", Undefined>>}
    ELSE IF s = "retry"
    THEN {<<"R", "A", "default">>}
    ELSE IF s = "anest"
    THEN {<<"Num", "FA", "default">>, <<"FA", "Mul4", "default">>}
    ELSE IF s = "label"
    THEN {<<"Nm", "Rg", "a">>, <<"Rg", "Nm2", "default">>}
    ELSE IF s = "spin"
    THEN {<<"Tick", "Tock", "default">>, <<"Tock", "Tick", "default">>}
    ELSE IF s = "cycle"
    THEN {<<"Num", "Check", "default">>, <<"Check", "Sub3", "positive">>,
          <<"Check", "NoOp", "negative">>, <<"Sub3", "Check", "default">>}
    ELSE {<<"FN", "Add3", "default">>, <<"FM", "Mul4", "default">>}

\* construction calls made before the first run
CallBudget(s) == IF s = "gen" THEN MaxCalls ELSE Cardinality(AllowedCalls(s))

Building == \A t \in Tasks : status[t] = "idle"

addSuccessor(u, v, l) ==
    /\ Building
    /\ calls < CallBudget(cfg.scn)
    /\ <<u, v, l>> \in AllowedCalls(cfg.scn)
    /\ LET action == ActionArg(l)
           threw == addSuccessorThrows(cfg.impl, u, action)
       IN  /\ heap' = IF threw THEN heap
                      ELSE [heap EXCEPT ![u].successors[action] = v]
           /\ lastCall' = [op |-> "addSuccessor", u |-> u, v |-> v, l |-> l,
                           action |-> action,
                           had |-> heap[u].successors[action] # NoNode, threw |-> threw]
           /\ firstReg' = IF firstReg[u][action] = NoNode
                          THEN [firstReg EXCEPT ![u][action] = v]
                          ELSE firstReg
    /\ calls' = calls + 1
    /\ UNCHANGED <<cfg, shared, status, stack, result, logs, steps, travs>>

setParams(u, p) ==
    /\ Building
    /\ calls < CallBudget(cfg.scn)
    /\ u \in ScenarioNodes(cfg.scn)
    /\ IsFlowClass(ClassOf(u))
    /\ p \in ParamSets
    /\ heap[u].flow_params # p
    /\ heap' = [heap EXCEPT ![u].flow_params = p]
    /\ lastCall' = [op |-> "setParams", u |-> u, v |-> NoNode, l |-> "", action |-> "",
                    had |-> FALSE, threw |-> FALSE]
    /\ calls' = calls + 1
    /\ UNCHANGED <<cfg, firstReg, shared, status, stack, result, logs, steps, travs>>

\* ------------------------------------------------- the units' own hooks
HookErr(id) == [type |-> "Hook", id |-> id, n |-> 0]
FlowExecErr(id) == [type |-> "FlowExec", id |-> id, n |-> 0]

\* Flow.prep result: {} in the framework, undefined in pocketgraph
FlowPrepResult(impl, obj) ==
    IF impl = "fw" THEN [tag |-> "obj", id |-> obj.id, n |-> 0] ELSE NoVal

\* the error a failing hook of obj throws in phase ph
ErrOf(obj, ph) ==
    IF IsFlowClass(obj.cls) /\ ph = "exec" THEN FlowExecErr(obj.id) ELSE HookErr(obj.id)

\* prep(sharedState): outcome, shared state afterwards, prep result
prepOutcomes(obj, sh) ==
    CASE obj.cls \in {"Generic", "GenericRetry"} ->
            {[ok |-> TRUE, shared |-> sh, res |-> [tag |-> "prep", id |-> obj.id, n |-> 0]],
             [ok |-> FALSE, shared |-> sh, res |-> NoVal]}
      [] obj.cls \in {"Flaky", "Template", "Named", "Regular"} ->
            {[ok |-> TRUE, shared |-> sh, res |-> [tag |-> "shared", id |-> "", n |-> 0]]}
      [] obj.cls \in BatchNodeClasses ->      \* the subclass returns the list of items
            {[ok |-> TRUE, shared |-> sh,
              res |-> [tag |-> "list", id |-> obj.id, n |-> cfg.items]]}
      [] obj.cls = "Increment" ->
            {[ok |-> TRUE, shared |-> sh, res |-> [tag |-> "num", id |-> "", n |-> sh.value]]}
      [] obj.cls = "Number" ->
            {[ok |-> TRUE, shared |-> [has |-> TRUE, value |-> ArgOf(obj.id)],
              res |-> [tag |-> "shared", id |-> "", n |-> 0]]}
      [] obj.cls = "Add" ->
            IF sh.has
            THEN {[ok |-> TRUE, shared |-> [sh EXCEPT !.value = sh.value + ArgOf(obj.id)],
                   res |-> [tag |-> "shared", id |-> "", n |-> 0]]}
            ELSE {[ok |-> FALSE, shared |-> sh, res |-> NoVal]}
      [] obj.cls = "Multiply" ->
            IF sh.has
            THEN {[ok |-> TRUE, shared |-> [sh EXCEPT !.value = sh.value * ArgOf(obj.id)],
                   res |-> [tag |-> "shared", id |-> "", n |-> 0]]}
            ELSE {[ok |-> FALSE, shared |-> sh, res |-> NoVal]}
      [] obj.cls = "Subtract" ->
            IF sh.has
            THEN {[ok |-> TRUE, shared |-> [sh EXCEPT !.value = sh.value - ArgOf(obj.id)],
                   res |-> [tag |-> "shared", id |-> "", n |-> 0]]}
            ELSE {[ok |-> FALSE, shared |-> sh, res |-> NoVal]}
      [] obj.cls \in {"Check", "NoOp"} ->
            IF sh.has
            THEN {[ok |-> TRUE, shared |-> sh, res |-> [tag |-> "shared", id |-> "", n |-> 0]]}
            ELSE {[ok |-> FALSE, shared |-> sh, res |-> NoVal]}
      [] OTHER ->        \* Flow.prep
            {[ok |-> TRUE, shared |-> sh, res |-> FlowPrepResult(cfg.impl, obj)]}

\* execCore(prepResult) on its attempt number i+1: outcome and exec result
execOutcomes(obj, sh, i) ==
    CASE obj.cls \in {"Generic", "GenericRetry"} \cup BatchNodeClasses ->
            {[ok |-> TRUE, res |-> [tag |-> "exec", id |-> obj.id, n |-> i + 1]],
             [ok |-> FALSE, res |-> NoVal]}
      [] obj.cls \in {"Number", "Add", "Multiply", "Subtract", "Check", "NoOp",
                      "Named", "Regular"} ->
            {[ok |-> TRUE, res |-> [tag |-> "num", id |-> "", n |-> sh.value]]}
      [] obj.cls = "Increment" ->      \* an external call that may fail
            {[ok |-> TRUE, res |-> [tag |-> "num", id |-> "", n |-> sh.value]],
             [ok |-> FALSE, res |-> NoVal]}
      [] obj.cls = "Flaky" ->      \* this.attempt++; throw while attempt <= failAttempts
            {[ok |-> AttemptOf(obj) + 1 > cfg.failAttempts,
              res |-> IF AttemptOf(obj) + 1 > cfg.failAttempts
                      THEN [tag |-> "succeeded", id |-> "", n |-> 0] ELSE NoVal]}
      [] OTHER ->        \* Flow.execCore / Flow.exec: throw new Error(...)
            {[ok |-> FALSE, res |-> NoVal]}

\* post(prepResult, execResult, sharedState): outcome and returned label
postOutcomes(obj, er) ==
    CASE obj.cls = "Generic" ->
            {[ok |-> TRUE, label |-> "default"], [ok |-> TRUE, label |-> "a"],
             [ok |-> TRUE, label |-> Undefined], [ok |-> FALSE, label |-> ""]}
      [] obj.cls = "GenericRetry" ->
            {[ok |-> TRUE, label |-> "default"], [ok |-> TRUE, label |-> "a"],
             [ok |-> FALSE, label |-> ""]}
      [] obj.cls \in {"Number", "Add", "Multiply", "Subtract", "NoOp", "Flaky",
                      "Regular", "Increment"} \cup BatchNodeClasses ->
            {[ok |-> TRUE, label |-> DEFAULT_ACTION]}
      [] obj.cls = "Named" -> {[ok |-> TRUE, label |-> cfg.label]}
      [] obj.cls = "Template" -> {[ok |-> TRUE, label |-> "delayed"]}   \* return execResult
      [] obj.cls = "Check" ->
            {[ok |-> TRUE, label |-> IF er.n >= 0 THEN "positive" ELSE "negative"]}
      [] OTHER -> {[ok |-> TRUE, label |-> DEFAULT_ACTION]}     \* Flow.post

\* Flow.post: DEFAULT_ACTION unless a subclass overrides it (pocketgraph: undefined)
FlowPostLabels(impl, obj) ==
    IF obj.cls = "CustomFlow" THEN {"default", "a"}
    ELSE IF impl = "fw" THEN {DEFAULT_ACTION} ELSE {Undefined}

\* mutation: Flow.run hands null to post
FlowExecResult_null(impl) == NullVal

\* the exec result Flow.run hands to the Flow's own post
FlowExecResult(impl) == IF impl = "fw" THEN NoVal ELSE NullVal

\* ------------------------------------------------------- call frames
Frame(fn, obj, pc, trav) ==
    [fn |-> fn, self |-> obj, pc |-> pc, i |-> 0, prepRes |-> NoVal, execRes |-> NoVal,
     cur |-> NoObj, action |-> "", flowParams |-> NoParams, hasFlowParams |-> FALSE,
     trav |-> trav, k |-> 0, n |-> 0, err |-> NoErr, results |-> <<>>,
     warned |-> FALSE]

\* mutation: Flow does not override run
runDispatch_base(obj) == "run"

\* which run method obj.run(sharedState) dispatches to
runDispatch(obj) ==
    IF IsBatchClass(obj.cls) THEN "batchrun"
    ELSE IF IsFlowClass(obj.cls) THEN "flowrun" ELSE "run"

RunFrame(obj, trav) == Frame(runDispatch(obj), obj, "prep", trav)

HasSuccessors(obj) == \E l \in Labels : obj.successors[l] # NoNode

\* "Node won't run successors": printed by BaseNode.run / AsyncNode.runAsync
\* (pocketgraph: the caller's entry points; _orch and _orchAsync call _run and
\* _runAsync) and by AsyncNode.runAsync of nodes.ts, which _orchAsync calls
\* too; AsyncFlow.runAsync and the framework print nothing
Warns(obj, byCaller) ==
    /\ HasSuccessors(obj)
    /\ CASE cfg.impl = "pg" -> byCaller /\ ~IsAsyncFlowClass(obj.cls)
         [] cfg.impl = "nt" -> ~IsFlowClass(obj.cls)
         [] OTHER -> FALSE

Top(t) == stack[t][Len(stack[t])]
Pop(s) == SubSeq(s, 1, Len(s) - 1)
SetTop(s, f) == [s EXCEPT ![Len(s)] = f]

\* mutation: post is awaited before the execution phase
NextPhase_postFirst(pc) ==
    CASE pc = "prep" -> "post"
      [] pc = "post" -> "exec"
      [] OTHER -> "done"

\* order of the phases inside BaseNode.run
NextPhase(pc) ==
    CASE pc = "prep" -> "exec"
      [] pc = "exec" -> "post"
      [] OTHER -> "done"

Event(f, ph, ok, i, pr, er, lab) ==
    [trav |-> f.trav, id |-> f.self.id, cls |-> f.self.cls, ph |-> ph, ok |-> ok,
     i |-> i, pr |-> pr, er |-> er, lab |-> lab, params |-> ParamsOf(f.self),
     list |-> f.results, warn |-> f.warned, wired |-> HasSuccessors(f.self),
     late |-> status["main"] = "rejected"]     \* the caller's run had already failed

\* mutation: orchestrate swallows the error and the enclosing Flow goes on to post
Reject_swallow(t, err) ==
    LET flows == {j \in 1..Len(stack[t]) : stack[t][j].fn = "flowrun"}
    IN  IF flows = {}
        THEN /\ status' = [status EXCEPT ![t] = "rejected"]
             /\ stack' = [stack EXCEPT ![t] = <<>>]
             /\ result' = [result EXCEPT ![t] = [label |-> "", err |-> err]]
        ELSE LET j == CHOOSE m \in flows : \A o \in flows : o <= m
             IN  /\ stack' = [stack EXCEPT ![t] =
                        SetTop(SubSeq(stack[t], 1, j), [stack[t][j] EXCEPT !.pc = "post"])]
                 /\ UNCHANGED <<status, result>>

\* an error nobody catches rejects the entry call's promise
Reject(t, err) ==
    /\ status' = [status EXCEPT ![t] = "rejected"]
    /\ stack' = [stack EXCEPT ![t] = <<>>]
    /\ result' = [result EXCEPT ![t] = [label |-> "", err |-> err]]

\* run / orchestrate returns to the awaiting caller
Return(t, label) ==
    LET rest == Pop(stack[t])
    IN  IF rest = <<>>
        THEN /\ status' = [status EXCEPT ![t] = "resolved"]
             /\ stack' = [stack EXCEPT ![t] = <<>>]
             /\ result' = [result EXCEPT ![t] = [label |-> label, err |-> NoErr]]
        ELSE /\ stack' = [stack EXCEPT ![t] =
                    SetTop(rest, [rest[Len(rest)] EXCEPT !.action = label, !.pc = "next"])]
             /\ UNCHANGED <<status, result>>

Entries(s) ==
    CASE s = "gen" -> {"F", "FI", "R", "A"}
      [] s = "branch" -> {"FB"}
      [] s = "nested" -> {"FW"}
      [] s = "retry" -> {"FR", "R"}
      [] s = "cycle" -> {"FY"}
      [] s = "anest" -> {"FO"}
      [] s = "conc" -> {"FC"}
      [] s = "bnode" -> {"BN"}
      [] s = "concw" -> {"FP"}
      [] s = "label" -> {"FL"}
      [] s = "spin" -> {"FS"}
      [] s = "race" -> {"BR"}
      [] OTHER -> {"BF"}

\* the threads that call run: two concurrent callers in the concurrent scenario
Callers(s) == IF s \in {"conc", "concw"} THEN {"main", "second"} ELSE {"main"}

\* mutation: the try block encloses the whole run of the unit
catches_all(cls, ph) == IsRetryClass(cls)

\* the try block of execWrapper / _exec encloses the execCore call only
catches(cls, ph) == IsRetryClass(cls) /\ ph = "exec"

\* the retrying classes whose loop variable is the field this.curRetry
\* (pocketgraph Node, nodes.ts AsyncNode); elsewhere it is a local of the call
UsesCurRetry(obj) ==
    IsRetryClass(obj.cls) /\ (cfg.impl = "nt" \/ (cfg.impl = "pg" /\ cfg.sync))

CurRetryOf(obj) == IF obj.clone THEN obj.curRetry ELSE heap[obj.id].curRetry

\* the value of the loop variable of the retry loop running in frame f
LoopIndex(f) == IF UsesCurRetry(f.self) THEN CurRetryOf(f.self) ELSE f.i

\* frame f, and heap h, after the loop variable has been assigned n
SetIndex(f, n) ==
    IF ~UsesCurRetry(f.self) THEN [f EXCEPT !.i = n]
    ELSE IF f.self.clone THEN [f EXCEPT !.self.curRetry = n] ELSE f

HeapSetIndex(h, f, n) ==
    IF UsesCurRetry(f.self) /\ ~f.self.clone
    THEN [h EXCEPT ![f.self.id].curRetry = n] ELSE h

\* mutation: the fallback is called after the first failed attempt
IsLastAttempt_first(f) == LoopIndex(f) = 0

\* the test of the catch block: curRetry === maxRetries - 1
IsLastAttempt(f) == LoopIndex(f) = MaxRetriesOf(f.self.id) - 1

\* the catch block: the framework awaits its timer after every failed attempt;
\* pocketgraph and nodes.ts call the fallback on the last attempt and
\* otherwise go on to the wait (if any) and the next turn of the loop
Caught(t, f, err) ==
    IF cfg.impl # "fw" /\ IsLastAttempt(f)
    THEN /\ stack' = [stack EXCEPT ![t] =
                SetTop(stack[t], [f EXCEPT !.pc = "fallback", !.err = err])]
         /\ UNCHANGED <<status, result>>
    ELSE /\ stack' = [stack EXCEPT ![t] = SetTop(stack[t], [f EXCEPT !.pc = "wait"])]
         /\ UNCHANGED <<status, result>>

\* the error object attempt number n of execCore / exec throws
AttemptErr(obj, n) == [ErrOf(obj, "exec") EXCEPT !.n = n]

\* a hook of the unit of frame f, the innermost call of t, threw in phase ph
Throw(t, f, ph) ==
    IF catches(f.self.cls, ph)
    THEN Caught(t, f, AttemptErr(f.self, LoopIndex(f) + 1))
    ELSE Reject(t, ErrOf(f.self, ph))

\* mutation: post is called without the exec result
postArgs_noExec(f) == [pr |-> f.prepRes, er |-> NoVal]

\* the arguments BaseNode.run passes to post
postArgs(f) == [pr |-> f.prepRes, er |-> f.execRes]

\* pocketgraph's Node and Flow are synchronous: a traversal over such units,
\* once its loop has started, runs to its end (busy-waiting between attempts)
\* without giving up the JS thread
Holds(t) ==
    /\ cfg.impl = "pg" /\ cfg.sync
    /\ status[t] = "running"
    /\ \E j \in 1..Len(stack[t]) : stack[t][j].fn = "orch" /\ stack[t][j].pc # "start"

\* no other task is in the middle of synchronous code
Free_unitLock(t) ==
    \A o \in Threads \ {t} :
        ~(status[o] = "running" /\ stack[o] # <<>>
          /\ stack[o][Len(stack[o])].fn = "run"
          /\ stack[o][Len(stack[o])].pc \in {"exec", "post"})

Free(t) == \A o \in Threads \ {t} : ~Holds(o)

Scheduled_cancelled(t) ==
    status[t] = "running" /\ Free(t) /\ status["main"] # "rejected"

\* task t is pending and the event loop can resume it
Scheduled(t) == status[t] = "running" /\ Free(t)

\* the caller invokes u.run(sharedState)
callRun(t, u) ==
    /\ status[t] = "idle" /\ Free(t)
    /\ t \in Callers(cfg.scn)
    /\ u \in Entries(cfg.scn)
    /\ status' = [status EXCEPT ![t] = "running"]
    /\ stack' = [stack EXCEPT ![t] =
           <<[RunFrame(heap[u], 0) EXCEPT !.warned = Warns(heap[u], TRUE)]>>]
    /\ calls' = 0
    /\ lastCall' = NoCall
    /\ UNCHANGED <<cfg, heap, firstReg, shared, result, logs, steps, travs>>

\* the caller invokes execCore / exec on a Flow
callExecCore(t, u) ==
    /\ status[t] = "idle"
    /\ u \in ScenarioNodes(cfg.scn)
    /\ IsFlowClass(ClassOf(u))
    /\ \E o \in execOutcomes(heap[u], shared, 0) :
          /\ ~o.ok
          /\ logs' = Appended(t, Event(Frame("execCore", heap[u], "exec", 0), "exec", o.ok,
                                       1, NoVal, o.res, ""))
          /\ Reject(t, ErrOf(heap[u], "exec"))
    /\ calls' = 0
    /\ lastCall' = NoCall
    /\ UNCHANGED <<cfg, heap, firstReg, shared, steps, travs>>

\* BaseNode.run: await this.prep(sharedState)
run_prep(t) ==
    /\ Scheduled(t)
    /\ Top(t).fn = "run" /\ Top(t).pc = "prep"
    /\ \E o \in prepOutcomes(Top(t).self, shared) :
          /\ logs' = Appended(t, Event(Top(t), "prep", o.ok, 0, o.res, NoVal, ""))
          /\ shared' = o.shared
          /\ IF o.ok
             THEN /\ stack' = [stack EXCEPT ![t] = SetTop(stack[t],
                         [SetIndex(Top(t), 0) EXCEPT !.prepRes = o.res,
                                                     !.pc = NextPhase("prep")])]
                  /\ heap' = HeapSetIndex(heap, Top(t), 0)
                  /\ UNCHANGED <<status, result>>
             ELSE /\ Throw(t, Top(t), "prep")
                  /\ UNCHANGED heap
    /\ UNCHANGED <<cfg, calls, lastCall, firstReg, steps, travs>>

\* mutation: the loop bound is off by one
RetryLimit_offByOne(obj) == IF IsRetryClass(obj.cls) THEN MaxRetriesOf(obj.id) + 1 ELSE 1

\* how many attempts execWrapper / _exec makes
RetryLimit(obj) == IF IsRetryClass(obj.cls) THEN MaxRetriesOf(obj.id) ELSE 1

\* the fields execCore assigns: FlakyRetryNode counts its calls
Bumped(obj) == IF obj.cls = "Flaky" THEN [obj EXCEPT !.attempt = AttemptOf(obj) + 1] ELSE obj

\* pocketgraph's batch nodes override _exec with a loop over the items that
\* calls the retry loop (super._exec) for each; the batch nodes of nodes.ts
\* put that loop into execAsync, the hook a subclass overrides with its
\* per-item exec, so the retry loop calls the per-item exec with the whole list
LoopsOverItems(f) ==
    /\ f.fn = "run" /\ f.self.cls \in BatchNodeClasses
    /\ cfg.impl = "pg" \/ (cfg.impl = "nt" /\ cfg.dispatch)

\* the value the user's exec returns: a batch node's exec computes it from
\* its argument (the item it was given)
execResult(f, res) ==
    IF f.self.cls \in BatchNodeClasses THEN [res EXCEPT !.n = f.prepRes.n] ELSE res

\* execWrapper / _exec: one attempt of execCore
execWrapper(t) ==
    /\ Scheduled(t)
    /\ Top(t).fn \in {"run", "_exec"} /\ Top(t).pc = "exec"
    /\ Top(t).self.cls # "Template" /\ ~LoopsOverItems(Top(t))
    /\ LoopIndex(Top(t)) < RetryLimit(Top(t).self)
    /\ \E o \in execOutcomes(Top(t).self, shared, LoopIndex(Top(t))) :
          LET f == IF Top(t).self.clone
                   THEN [Top(t) EXCEPT !.self = Bumped(Top(t).self)] ELSE Top(t)
          IN  /\ logs' = Appended(t, Event(Top(t), "exec", o.ok, LoopIndex(Top(t)) + 1,
                                           Top(t).prepRes, execResult(Top(t), o.res), ""))
              /\ heap' = IF Top(t).self.clone THEN heap
                         ELSE [heap EXCEPT ![Top(t).self.id] = Bumped(heap[Top(t).self.id])]
              /\ IF o.ok
                 THEN /\ stack' = [stack EXCEPT ![t] = SetTop(stack[t],
                             [f EXCEPT !.execRes = execResult(f, o.res),
                                       !.pc = NextPhase("exec")])]
                      /\ UNCHANGED <<status, result>>
                 ELSE Throw(t, f, "exec")
    /\ UNCHANGED <<cfg, calls, lastCall, firstReg, shared, steps, travs>>

\* does the catch block wait before the next turn of the loop? the framework
\* always awaits setTimeout(intervalMs); pocketgraph and nodes.ts only if wait > 0
HasTimer(impl) == impl = "fw" \/ cfg.wait > 0

\* the rest of the catch block after a failed attempt that was not answered by
\* the fallback: the wait, if any, elapses and the loop variable is incremented
retryWait(t) ==
    /\ Scheduled(t)
    /\ Top(t).fn \in {"run", "_exec"} /\ Top(t).pc = "wait"
    /\ logs' = IF HasTimer(cfg.impl)
               THEN Appended(t, Event(Top(t), "wait", TRUE, LoopIndex(Top(t)) + 1,
                                      NoVal, NoVal, ""))
               ELSE logs
    /\ stack' = [stack EXCEPT ![t] = SetTop(stack[t],
                     [SetIndex(Top(t), LoopIndex(Top(t)) + 1) EXCEPT !.pc = "exec"])]
    /\ heap' = HeapSetIndex(heap, Top(t), LoopIndex(Top(t)) + 1)
    /\ UNCHANGED <<cfg, calls, lastCall, firstReg, shared, status, result, steps, travs>>

FallbackErr(id) == [type |-> "Fallback", id |-> id, n |-> 0]

\* execFallback(prepRes, exc) / execFallbackAsync: the default rethrows exc, an
\* override returns a substitute result or throws an error of its own
fallbackOutcome(obj, exc) ==
    CASE cfg.fallback = "value" ->
            [ok |-> TRUE, res |-> [tag |-> "fallback", id |-> obj.id, n |-> exc.n],
             err |-> NoErr]
      [] cfg.fallback = "raise" -> [ok |-> FALSE, res |-> NoVal, err |-> FallbackErr(obj.id)]
      [] OTHER -> [ok |-> FALSE, res |-> NoVal, err |-> exc]

\* _exec: return this.execFallback(prepRes, error) on the last attempt
execFallback(t) ==
    /\ Scheduled(t)
    /\ Top(t).fn \in {"run", "_exec"} /\ Top(t).pc = "fallback"
    /\ LET f == Top(t)
           o == fallbackOutcome(f.self, f.err)
       IN  /\ logs' = Appended(t, Event(f, "fallback", o.ok, f.err.n, f.prepRes, o.res, ""))
           /\ IF o.ok
              THEN /\ stack' = [stack EXCEPT ![t] = SetTop(stack[t],
                          [f EXCEPT !.execRes = o.res, !.pc = NextPhase("exec")])]
                   /\ UNCHANGED <<status, result>>
              ELSE Reject(t, o.err)
    /\ UNCHANGED <<cfg, heap, calls, lastCall, firstReg, shared, steps, travs>>

\* the retry loop ends without a successful attempt
retriesExhausted(t) ==
    /\ Scheduled(t)
    /\ Top(t).fn \in {"run", "_exec"} /\ Top(t).pc = "exec"
    /\ ~LoopsOverItems(Top(t))
    /\ LoopIndex(Top(t)) >= RetryLimit(Top(t).self)
    /\ IF cfg.impl = "fw"
       THEN Reject(t, [type |-> "MaxRetries", id |-> Top(t).self.id,
                       n |-> MaxRetriesOf(Top(t).self.id)])
       ELSE /\ stack' = [stack EXCEPT ![t] = SetTop(stack[t],
                   [Top(t) EXCEPT !.execRes = NoVal, !.pc = NextPhase("exec")])]
            /\ UNCHANGED <<status, result>>
    /\ UNCHANGED <<cfg, heap, calls, lastCall, firstReg, shared, logs, steps, travs>>

\* BaseNode.run: await this.post(prepResult, execResult, sharedState); return action
\* the shared state after post: the Increment unit stores the value its prep
\* read, plus one
postShared(obj, pr, sh) ==
    IF obj.cls = "Increment" THEN [sh EXCEPT !.value = pr.n + 1] ELSE sh

run_post(t) ==
    /\ Scheduled(t)
    /\ Top(t).fn = "run" /\ Top(t).pc = "post"
    /\ \E o \in postOutcomes(Top(t).self, postArgs(Top(t)).er) :
          /\ logs' = Appended(t, Event(Top(t), "post", o.ok, 0, postArgs(Top(t)).pr,
                                       postArgs(Top(t)).er, o.label))
          /\ shared' = IF o.ok THEN postShared(Top(t).self, postArgs(Top(t)).pr, shared)
                       ELSE shared
          /\ IF o.ok THEN Return(t, o.label) ELSE Throw(t, Top(t), "post")
    /\ UNCHANGED <<cfg, heap, calls, lastCall, firstReg, steps, travs>>

\* ------------------------------------------------------------------ Flow
\* Flow.run: await this.prep(sharedState), then call this.orchestrate(sharedState)
Flow_prep(t) ==
    /\ Scheduled(t)
    /\ Top(t).fn = "flowrun" /\ Top(t).pc = "prep"
    /\ logs' = Appended(t, Event(Top(t), "prep", TRUE, travs + 1,
                                 FlowPrepResult(cfg.impl, Top(t).self), NoVal, ""))
    /\ travs' = travs + 1
    /\ stack' = [stack EXCEPT ![t] =
           Append(SetTop(stack[t],
                         [Top(t) EXCEPT !.prepRes = FlowPrepResult(cfg.impl, Top(t).self),
                                        !.i = travs + 1, !.pc = "orch"]),
                  Frame("orch", Top(t).self, "start", travs + 1))]
    /\ UNCHANGED <<cfg, heap, calls, lastCall, firstReg, shared, status, result, steps>>

\* mutation: the traversal runs the wired start unit itself, not a copy
getStartNode_shared(impl, flow) == heap[StartOf(flow.id)]

\* getStartNode / the copy of this.start made by _orch
getStartNode(impl, flow) ==
    IF impl = "fw" THEN clone(heap[StartOf(flow.id)]) ELSE ShallowCopy(heap[StartOf(flow.id)])

\* { ...parent, ...child }
Merge(parent, child) ==
    [key \in DOMAIN parent |-> IF child[key] # 0 THEN child[key] ELSE parent[key]]

\* mutation: the explicit argument is ignored
EffectiveParams_own(f) == ParamsOf(f.self)

\* the parameters orchestrate pushes into the unit it is about to run:
\* the argument if given, else the Flow's own; nodes.ts spreads the argument
\* over the Flow's own
EffectiveParams(f) ==
    IF ~f.hasFlowParams THEN ParamsOf(f.self)
    ELSE IF cfg.impl = "nt" THEN Merge(ParamsOf(f.self), f.flowParams)
    ELSE f.flowParams

\* mutation: a unit the traversal has already run is not run again
NextUnit_noRevisit(impl, f) ==
    IF \E k \in 1..Len(log) : /\ log[k].trav = f.trav
                              /\ log[k].id = getSuccessor(f.cur, f.action).id
    THEN NoObj
    ELSE getSuccessor(f.cur, f.action)

\* the successor orchestrate looks up after a unit returned
\* mutation: the loop gives up after two units
NextUnit_stepBound(impl, f) ==
    IF steps >= 2 THEN NoObj
    ELSE IF impl = "fw" THEN getSuccessor(f.cur, f.action)
    ELSE getNextNode(f.cur, f.action)

NextUnit(impl, f) ==
    IF impl = "fw" THEN getSuccessor(f.cur, f.action) ELSE getNextNode(f.cur, f.action)

UsageErr(id) == [type |-> "Usage", id |-> id, n |-> 0]

\* does the call by which the orchestrator runs its current unit throw at once?
\* pocketgraph runs whatever is not an AsyncNode through the synchronous _run,
\* which for an AsyncFlow is Flow._run calling the prep that throws "Use
\* prepAsync"; nodes.ts throws on whatever is not an AsyncNode
StepThrows(impl, node) ==
    \/ impl = "pg" /\ IsAsyncFlowClass(node.cls)
    \/ impl = "nt" /\ (IsFlowClass(node.cls) \/ node.cls = "Regular")

\* curr.setParams is not a function
TypeErr == [type |-> "TypeError", id |-> "", n |-> 0]

\* currentNode.setParams(...); currentNode.run(sharedState)
AfterLookup_consume(h, f) ==
    LET key == IF f.action \in Labels THEN f.action ELSE DEFAULT_ACTION
    IN  IF f.cur = NoObj THEN h
        ELSE [h EXCEPT ![f.cur.id].successors[key] = NoNode]

\* the wired objects after the lookup of the next unit: getSuccessor (has,
\* get) and getNextNode (successors[action]) only read the table
AfterLookup(h, f) == h

RunUnit(t, f, node) ==
    LET cur == [node EXCEPT !.flow_params = EffectiveParams(f)]
        h == AfterLookup(heap, f)
    IN  /\ heap' = IF node.clone THEN h
                   ELSE [h EXCEPT ![node.id].flow_params = EffectiveParams(f)]
        /\ IF node.cls = "Function"
           THEN Reject(t, TypeErr)
           ELSE IF StepThrows(cfg.impl, node)
           THEN Reject(t, UsageErr(node.id))
           ELSE /\ stack' = [stack EXCEPT ![t] =
                      Append(SetTop(stack[t], [f EXCEPT !.cur = cur, !.pc = "running"]),
                             [RunFrame(cur, f.trav) EXCEPT
                                 !.warned = Warns(cur, FALSE)])]
                /\ UNCHANGED <<status, result>>

\* the successor graph: the units registered as successors of unit u, and for
\* an orchestrator also the start unit of the traversal it runs in its exec
Succ(u) == {heap[u].successors[l] : l \in Labels} \ {NoNode}

Inner(u) == Succ(u) \cup ({StartOf(u)} \ {NoNode})

RECURSIVE Closure(_, _)
Closure(S, inner) ==
    LET T == S \cup UNION {IF inner THEN Inner(u) ELSE Succ(u) : u \in S}
    IN  IF T = S THEN S ELSE Closure(T, inner)

\* no unit reachable from u (u included) is reachable from itself
Acyclic(u, inner) ==
    \A v \in Closure({u}, inner) :
        v \notin Closure(IF inner THEN Inner(v) ELSE Succ(v), inner)

\* a traversal of a cyclic graph may go on for ever: the behaviours over the
\* cyclic generic graphs and over the two-unit loop are cut off after
\* MaxSteps units; over an acyclic graph nothing is cut off
StepsLeft ==
    \/ cfg.scn \notin {"gen", "spin"}
    \/ steps < MaxSteps
    \/ \A e \in Entries(cfg.scn) : Acyclic(e, TRUE)

\* Flow.orchestrate: obtain the start unit and run it
orchestrate_start(t) ==
    /\ Scheduled(t)
    /\ Top(t).fn = "orch" /\ Top(t).pc = "start"
    /\ StepsLeft
    /\ RunUnit(t, Top(t), getStartNode(cfg.impl, Top(t).self))
    /\ steps' = steps + 1
    /\ UNCHANGED <<cfg, calls, lastCall, firstReg, shared, logs, travs>>

\* Flow.orchestrate: the unit returned a label that has a successor; run it
orchestrate_advance(t) ==
    /\ Scheduled(t)
    /\ Top(t).fn = "orch" /\ Top(t).pc = "next"
    /\ NextUnit(cfg.impl, Top(t)) # NoObj
    /\ StepsLeft
    /\ RunUnit(t, Top(t), NextUnit(cfg.impl, Top(t)))
    /\ steps' = steps + 1
    /\ UNCHANGED <<cfg, calls, lastCall, firstReg, shared, logs, travs>>

\* Flow.orchestrate: no successor for the returned label; the loop ends and
\* the awaiting Flow.run goes on, or (a batch's call) the call's promise is fulfilled
orchestrate_finish(t) ==
    /\ Scheduled(t)
    /\ Top(t).fn = "orch" /\ Top(t).pc = "next"
    /\ NextUnit(cfg.impl, Top(t)) = NoObj
    /\ LET rest == Pop(stack[t])
       IN  IF rest = <<>>
           THEN /\ status' = [status EXCEPT ![t] = "resolved"]
                /\ stack' = [stack EXCEPT ![t] = <<>>]
                /\ result' = [result EXCEPT ![t] = [label |-> Undefined, err |-> NoErr]]
           ELSE /\ stack' = [stack EXCEPT ![t] =
                       SetTop(rest, [rest[Len(rest)] EXCEPT !.pc = "post"])]
                /\ UNCHANGED <<status, result>>
    /\ UNCHANGED <<cfg, heap, calls, lastCall, firstReg, shared, logs, steps, travs>>

\* Flow.run: return this.post(prepResult, undefined, sharedState)
Flow_post(t) ==
    /\ Scheduled(t)
    /\ Top(t).fn = "flowrun" /\ Top(t).pc = "post"
    /\ \E lab \in FlowPostLabels(cfg.impl, Top(t).self) :
          /\ logs' = Appended(t, Event(Top(t), "post", TRUE, Top(t).i, Top(t).prepRes,
                                       FlowExecResult(cfg.impl), lab))
          /\ Return(t, lab)
    /\ UNCHANGED <<cfg, heap, calls, lastCall, firstReg, shared, steps, travs>>

\* ----------------------------------------------------------- TemplateNode
\* execCore reads this.flow_params.delay and awaits a timer of that length
execCore_sleep(t) ==
    /\ Scheduled(t)
    /\ Top(t).fn = "run" /\ Top(t).pc = "exec"
    /\ Top(t).self.cls = "Template"
    /\ logs' = Appended(t, Event(Top(t), "sleep", TRUE, 1, Top(t).prepRes, NoVal, ""))
    /\ stack' = [stack EXCEPT ![t] = SetTop(stack[t],
           [Top(t) EXCEPT !.pc = "sleep",
                          !.execRes = [tag |-> "delay", id |-> "",
                                       n |-> ParamsOf(Top(t).self).delay]])]
    /\ UNCHANGED <<cfg, heap, calls, lastCall, firstReg, shared, status, result, steps, travs>>

\* the timer fires and execCore returns the string built from the delay
timerFires(t) ==
    /\ Scheduled(t)
    /\ Top(t).fn = "run" /\ Top(t).pc = "sleep"
    /\ logs' = Appended(t, Event(Top(t), "exec", TRUE, 1, Top(t).prepRes, Top(t).execRes, ""))
    /\ stack' = [stack EXCEPT ![t] = SetTop(stack[t], [Top(t) EXCEPT !.pc = NextPhase("exec")])]
    /\ UNCHANGED <<cfg, heap, calls, lastCall, firstReg, shared, status, result, steps, travs>>

\* ------------------------------------------------------------ batch flows
\* the parameter sets prep returns: item 1 lacks the key k, the others set it
Item(j) == [delay |-> j, k |-> IF j = 1 THEN 0 ELSE 2]

\* mutation: every class awaits each orchestrate call inside the loop
BatchMode_awaitEach(impl, cls) == "seq"

\* mutation: every class collects the calls and awaits them together
BatchMode_allAtOnce(impl, cls) == "par"

\* how the class runs orchestrate for the items: "par" starts every call and
\* awaits them together, "seq" awaits each call before the next
BatchMode(impl, cls) ==
    IF (impl = "fw" /\ cls = "BatchFlow")
       \/ cls \in {"AsyncParallelBatchFlow", "AsyncParallelBatchNode"}
    THEN "par" ELSE "seq"

\* the argument handed to orchestrate / _orch for the parameter set bp
BatchArg(impl, own, bp) == IF impl = "pg" THEN Merge(own, bp) ELSE bp

\* mutation: the loop runs one index too far
ToStart_oneMore(mode, k, n) == IF mode = "par" THEN (k + 1)..(n + 1) ELSE {k + 1}

\* the items whose orchestrate call the loop makes before it next awaits
ToStart(mode, k, n) == IF mode = "par" THEN (k + 1)..n ELSE {k + 1}

Fulfilled(j) == status[Br[j]] = "resolved"

\* mutation: the calls are not awaited
PromiseAll_noWait(k) == TRUE

\* mutation: Promise.allSettled, which also returns when a call was rejected
PromiseAll_settled(k) == \A j \in 1..k : status[Br[j]] \in {"resolved", "rejected"}

\* await Promise.all over (or await of each of) the first k calls has returned
PromiseAll(k) == \A j \in 1..k : Fulfilled(j)

\* what run passes to post as the execution result
BatchExecResult(impl, n) ==
    IF impl = "fw" THEN [tag |-> "list", id |-> "", n |-> n] ELSE NullVal

\* run: await this.prep(sharedState)
Batch_prep(t) ==
    /\ Scheduled(t)
    /\ Top(t).fn = "batchrun" /\ Top(t).pc = "prep"
    /\ LET pr == [tag |-> "list", id |-> Top(t).self.id, n |-> cfg.items]
       IN  /\ logs' = Appended(t, Event(Top(t), "prep", TRUE, travs + 1, pr, NoVal, ""))
           /\ stack' = [stack EXCEPT ![t] = SetTop(stack[t],
                  [Top(t) EXCEPT !.prepRes = pr, !.i = travs + 1, !.n = cfg.items,
                                 !.k = 0, !.pc = "loop"])]
    /\ travs' = travs + cfg.items
    /\ UNCHANGED <<cfg, heap, calls, lastCall, firstReg, shared, status, result, steps>>

\* the loop over the items calls orchestrate(sharedState, item)
MoreItems_atLeastOne(f) == f.k < f.n \/ f.k = 0

\* for (const prepResult of prepResultList): the list has an element left
MoreItems(f) == f.k < f.n

Batch_start(t) ==
    /\ Scheduled(t)
    /\ Top(t).fn = "batchrun" /\ Top(t).pc = "loop"
    /\ MoreItems(Top(t))
    /\ BatchMode(cfg.impl, Top(t).self.cls) = "seq" => PromiseAll(Top(t).k)
    /\ LET f == Top(t)
           S == ToStart(BatchMode(cfg.impl, f.self.cls), f.k, f.n)
           last == CHOOSE j \in S : \A m \in S : m <= j
           call(j) == [Frame("orch", f.self, "start", f.i + j - 1) EXCEPT
                          !.flowParams = BatchArg(cfg.impl, ParamsOf(f.self), Item(j)),
                          !.hasFlowParams = TRUE]
       IN  /\ S # {}
           /\ status' = [th \in Threads |->
                  IF \E j \in S : Br[j] = th THEN "running" ELSE status[th]]
           /\ stack' = [th \in Threads |->
                  IF th = t THEN SetTop(stack[t], [f EXCEPT !.k = last])
                  ELSE IF \E j \in S : Br[j] = th
                  THEN <<call(CHOOSE j \in S : Br[j] = th)>>
                  ELSE stack[th]]
    /\ UNCHANGED <<cfg, heap, calls, lastCall, firstReg, shared, result, logs, steps, travs>>

\* an awaited orchestrate call was rejected: run throws its error
Batch_fail(t) ==
    /\ Scheduled(t)
    /\ Top(t).fn = "batchrun" /\ Top(t).pc = "loop"
    /\ \E j \in 1..Top(t).k :
          /\ status[Br[j]] = "rejected"
          /\ Reject(t, result[Br[j]].err)
    /\ UNCHANGED <<cfg, heap, calls, lastCall, firstReg, shared, logs, steps, travs>>

\* every call has been awaited: return this.post(prepResultList, resultList, sharedState)
Batch_post(t) ==
    /\ Scheduled(t)
    /\ Top(t).fn = "batchrun" /\ Top(t).pc = "loop"
    /\ Top(t).k = Top(t).n
    /\ PromiseAll(Top(t).n)
    /\ \E lab \in FlowPostLabels(cfg.impl, Top(t).self) :
          /\ logs' = Appended(t, Event(Top(t), "post", TRUE, Top(t).i, Top(t).prepRes,
                                       BatchExecResult(cfg.impl, Top(t).n), lab))
          /\ Return(t, lab)
    /\ UNCHANGED <<cfg, heap, calls, lastCall, firstReg, shared, steps, travs>>

\* -------------------------------------------------------- isolation copy
\* the copy an orchestrator makes of a unit before running it: u.clone() in
\* the framework, Object.assign(Object.create(proto), u) in pocketgraph and
\* in shallowCopyNode of nodes.ts
IsolationCopy(impl, obj) == IF impl = "fw" THEN clone(obj) ELSE ShallowCopy(obj)

\* cloneDeep gives the copy a config object of its own; Object.assign copies
\* the reference held in params, so the copy's config is the unit's object
ConfigIsShared(impl) == impl # "fw"

\* code that holds a unit takes its isolation copy
callClone(t, u) ==
    /\ status[t] = "idle" /\ Free(t)
    /\ cfg.scn \in {"gen", "retry"}
    /\ u \in ScenarioNodes(cfg.scn)
    /\ status' = [status EXCEPT ![t] = "running"]
    /\ stack' = [stack EXCEPT ![t] =
           <<[Frame("clone", IsolationCopy(cfg.impl, heap[u]), "held", 0) EXCEPT
                 !.flowParams = heap[u].flow_params]>>]
    /\ calls' = 0
    /\ lastCall' = NoCall
    /\ UNCHANGED <<cfg, heap, firstReg, shared, result, logs, steps, travs>>

\* ... and changes a value inside the copy's config object
writeCopyConfig(t, p) ==
    /\ Scheduled(t)
    /\ Top(t).fn = "clone" /\ Top(t).pc = "held"
    /\ p \in ParamSets /\ p # Top(t).self.flow_params
    /\ stack' = [stack EXCEPT ![t] = SetTop(stack[t],
           [Top(t) EXCEPT !.self.flow_params = p, !.pc = "written"])]
    /\ heap' = IF ConfigIsShared(cfg.impl)
               THEN [heap EXCEPT ![Top(t).self.id].flow_params = p]
               ELSE heap
    /\ UNCHANGED <<cfg, calls, lastCall, firstReg, shared, status, result, logs, steps,
                   travs>>

\* ------------------------------------------------------------ batch nodes
ItemVal(j) == [tag |-> "item", id |-> "", n |-> j]

\* BatchNode._exec / AsyncBatchNode._exec / AsyncParallelBatchNode._exec:
\* super._exec(i) is called for the next item, or for all at once
BatchNode_start(t) ==
    /\ Scheduled(t)
    /\ LoopsOverItems(Top(t)) /\ Top(t).pc = "exec"
    /\ Top(t).k < Top(t).prepRes.n
    /\ BatchMode(cfg.impl, Top(t).self.cls) = "seq" => PromiseAll(Top(t).k)
    /\ LET f == Top(t)
           n == f.prepRes.n
           S == ToStart(BatchMode(cfg.impl, f.self.cls), f.k, n)
           last == CHOOSE j \in S : \A m \in S : m <= j
           call(j) == [SetIndex(Frame("_exec", f.self, "exec", f.trav), 0) EXCEPT
                          !.prepRes = ItemVal(j), !.k = j]
       IN  /\ S # {}
           /\ status' = [th \in Threads |->
                  IF \E j \in S : Br[j] = th THEN "running" ELSE status[th]]
           /\ stack' = [th \in Threads |->
                  IF th = t
                  THEN SetTop(stack[t], [f EXCEPT !.k = last,
                           !.results = IF f.k = 0 THEN [j \in 1..n |-> NoVal]
                                       ELSE f.results])
                  ELSE IF \E j \in S : Br[j] = th
                  THEN <<call(CHOOSE j \in S : Br[j] = th)>>
                  ELSE stack[th]]
           /\ heap' = HeapSetIndex(heap, f, 0)
    /\ UNCHANGED <<cfg, calls, lastCall, firstReg, shared, result, logs, steps, travs>>

\* super._exec(i) returns: its value becomes element i of the result list
exec_return(t) ==
    /\ Scheduled(t)
    /\ Top(t).fn = "_exec" /\ Top(t).pc = "post"
    /\ status' = [status EXCEPT ![t] = "resolved"]
    /\ result' = [result EXCEPT ![t] = [label |-> Undefined, err |-> NoErr]]
    /\ stack' = [th \in Threads |->
           IF th = t THEN <<>>
           ELSE IF th = "main" /\ stack[th] # <<>>
           THEN SetTop(stack[th],
                       [Top(th) EXCEPT !.results[Top(t).k] = Top(t).execRes])
           ELSE stack[th]]
    /\ UNCHANGED <<cfg, heap, calls, lastCall, firstReg, shared, logs, steps, travs>>

\* nt: the item loop lives in execAsync, which the retry loop of
\* AsyncNode._exec calls; that loop catches what Promise.all (or the for loop)
\* throws and tests the same counter this.curRetry that the item calls count in
OuterLoopCatches(f) == cfg.impl = "nt" /\ LoopsOverItems(f)

\* a call of super._exec threw (its fallback rethrew).  pg: _exec throws that
\* error.  nt: the enclosing loop runs the fallback (which rethrows) when the
\* counter reads maxRetries - 1; any other reading is past the last attempt, so
\* the loop increments once more, ends, and _exec returns undefined to post.
BatchNode_fail(t) ==
    /\ Scheduled(t)
    /\ LoopsOverItems(Top(t)) /\ Top(t).pc = "exec"
    /\ \E j \in 1..Top(t).k :
          /\ status[Br[j]] = "rejected"
          /\ IF OuterLoopCatches(Top(t)) /\ ~IsLastAttempt(Top(t))
             THEN /\ stack' = [stack EXCEPT ![t] = SetTop(stack[t],
                         [Top(t) EXCEPT !.execRes = NoVal, !.pc = NextPhase("exec")])]
                  /\ heap' = HeapSetIndex(heap, Top(t), LoopIndex(Top(t)) + 1)
                  /\ UNCHANGED <<status, result>>
             ELSE /\ Reject(t, result[Br[j]].err)
                  /\ UNCHANGED heap
    /\ UNCHANGED <<cfg, calls, lastCall, firstReg, shared, logs, steps, travs>>

\* every call has returned: _exec returns the list of their results
BatchNode_join(t) ==
    /\ Scheduled(t)
    /\ LoopsOverItems(Top(t)) /\ Top(t).pc = "exec"
    /\ Top(t).k = Top(t).prepRes.n
    /\ PromiseAll(Top(t).k)
    /\ stack' = [stack EXCEPT ![t] = SetTop(stack[t],
           [Top(t) EXCEPT !.execRes = [tag |-> "list", id |-> Top(t).self.id,
                                        n |-> Top(t).k],
                          !.pc = NextPhase("exec")])]
    /\ UNCHANGED <<cfg, heap, calls, lastCall, firstReg, shared, status, result, logs,
                   steps, travs>>

\* ------------------------------------------------------- specification
InitHeap == [id \in ScenarioNodes(cfg.scn) |->
                [id |-> id, cls |-> ClassOf(id), clone |-> FALSE, flow_params |-> NoParams,
                 attempt |-> 0, curRetry |-> 0, successors |-> NoSuccessors]]

Init ==
    /\ cfg \in ([scn : {"gen"}, impl : Impls, maxRetries : 0..MaxRetriesBound,
                 startF : {"R", "FI"}, numValue : {0}, failAttempts : {0},
                 batchCls : {"BatchFlow"}, startB : {"A"}, items : {0},
                 own : {NoParams}, sync : {TRUE}, wait : {0}, fallback : {"default"}, label : {""}, dispatch : {FALSE}]
                \cup
                [scn : {"branch"}, impl : {"fw"}, maxRetries : {1},
                 startF : {"FI"}, numValue : {5, -5}, failAttempts : {0},
                 batchCls : {"BatchFlow"}, startB : {"A"}, items : {0},
                 own : {NoParams}, sync : {TRUE}, wait : {0}, fallback : {"default"}, label : {""}, dispatch : {FALSE}]
                \cup
                [scn : {"nested"}, impl : {"fw"}, maxRetries : {1},
                 startF : {"FI"}, numValue : {5}, failAttempts : {0},
                 batchCls : {"BatchFlow"}, startB : {"A"}, items : {0},
                 own : {NoParams}, sync : {TRUE}, wait : {0}, fallback : {"default"}, label : {""}, dispatch : {FALSE}]
                \cup
                [scn : {"cycle"}, impl : {"fw"}, maxRetries : {1},
                 startF : {"FI"}, numValue : {10}, failAttempts : {0},
                 batchCls : {"BatchFlow"}, startB : {"A"}, items : {0},
                 own : {NoParams}, sync : {FALSE}, wait : {0}, fallback : {"default"}, label : {""}, dispatch : {FALSE}]
                \cup
                [scn : {"anest"}, impl : {"pg", "nt"}, maxRetries : {1},
                 startF : {"FA", "Num"}, numValue : {5}, failAttempts : {0},
                 batchCls : {"AsyncFlow", "AsyncBatchFlow", "AsyncParallelBatchFlow"},
                 startB : {"A"}, items : {0},
                 own : {NoParams}, sync : {FALSE}, wait : {0}, fallback : {"default"}, label : {""}, dispatch : {FALSE}]
                \cup
                [scn : {"label"}, impl : {"pg", "nt"}, maxRetries : {1},
                 startF : {"FI"}, numValue : {0}, failAttempts : {0},
                 batchCls : {"BatchFlow"}, startB : {"A"}, items : {0},
                 own : {NoParams}, sync : {FALSE}, wait : {0}, fallback : {"default"},
                 label : {"a", "other", "constructor", "toString"},
                 dispatch : {FALSE}]
                \cup
                [scn : {"spin"}, impl : {"fw", "pg"}, maxRetries : {1},
                 startF : {"FI"}, numValue : {0}, failAttempts : {0},
                 batchCls : {"BatchFlow"}, startB : {"A"}, items : {0},
                 own : {NoParams}, sync : {TRUE}, wait : {0}, fallback : {"default"},
                 label : {""}, dispatch : {FALSE}]
                \cup
                {c \in [scn : {"retry"}, impl : {"pg", "nt"}, maxRetries : 0..MaxRetriesBound,
                        startF : {"FI"}, numValue : {0}, failAttempts : {0},
                        batchCls : {"BatchFlow"}, startB : {"A"}, items : {0},
                        own : {NoParams}, sync : BOOLEAN, wait : {0, 1},
                        fallback : {"default", "value", "raise"},
                        label : {""}, dispatch : {FALSE}] :
                    c.impl = "nt" => ~c.sync})
    /\ heap = InitHeap
    /\ calls = 0
    /\ lastCall = NoCall
    /\ firstReg = [id \in ScenarioNodes(cfg.scn) |-> NoSuccessors]
    /\ shared \in IF cfg.scn = "gen" THEN {[has |-> FALSE, value |-> 0]}
                  ELSE {[has |-> TRUE, value |-> 0], [has |-> FALSE, value |-> 0]}
    /\ status = [t \in Threads |-> "idle"]
    /\ stack = [t \in Threads |-> <<>>]
    /\ result = [t \in Threads |-> [label |-> "", err |-> NoErr]]
    /\ logs = [t \in Threads |-> <<>>]
    /\ steps = 0
    /\ travs = 0

Next ==
    \/ \E c \in AllowedCalls(cfg.scn) : addSuccessor(c[1], c[2], c[3])
    \/ \E u \in ScenarioNodes(cfg.scn), p \in ParamSets : setParams(u, p)
    \/ \E t \in Tasks, u \in Entries(cfg.scn) : callRun(t, u)
    \/ \E t \in Tasks, u \in ScenarioNodes(cfg.scn) : callExecCore(t, u)
    \/ \E t \in Tasks, u \in ScenarioNodes(cfg.scn) : callClone(t, u)
    \/ \E t \in Tasks, p \in ParamSets : writeCopyConfig(t, p)
    \/ \E t \in Tasks : run_prep(t)
    \/ \E t \in Tasks : execWrapper(t)
    \/ \E t \in Tasks : retryWait(t)
    \/ \E t \in Tasks : retriesExhausted(t)
    \/ \E t \in Tasks : execFallback(t)
    \/ \E t \in Tasks : run_post(t)
    \/ \E t \in Tasks : Flow_prep(t)
    \/ \E t \in Tasks : orchestrate_start(t)
    \/ \E t \in Tasks : orchestrate_advance(t)
    \/ \E t \in Tasks : orchestrate_finish(t)
    \/ \E t \in Tasks : Flow_post(t)

Spec == Init /\ [][Next]_vars

\* the steps of a run that has been started: each is the continuation of an
\* awaited promise or of a timer, which the event loop runs once it is due
RunSteps ==
    \E t \in Tasks :
        \/ run_prep(t) \/ execWrapper(t) \/ retryWait(t) \/ retriesExhausted(t)
        \/ execFallback(t) \/ run_post(t) \/ Flow_prep(t) \/ orchestrate_start(t)
        \/ orchestrate_advance(t) \/ orchestrate_finish(t) \/ Flow_post(t)

\* the retry loops longer than one attempt are those of scenario "retry"; the
\* generic graphs are traversed with retrying units of at most one attempt
InitFair == Init /\ (cfg.scn = "gen" => cfg.maxRetries <= 1)

\* the same behaviours, in which a started run is not suspended for ever
SpecFair == InitFair /\ [][Next]_vars /\ WF_vars(RunSteps)

\* concurrent runs and batches, on the graphs of the tests wired beforehand
WiredHeap ==
    IF cfg.scn = "batch"
    THEN [InitHeap EXCEPT !["A"].successors["default"] = "T",
                          !["AddPos"].successors["default"] = "T",
                          !["BF"].flow_params = cfg.own]
    ELSE InitHeap

InitPar ==
    /\ cfg \in ([scn : {"conc"}, impl : {"fw"}, maxRetries : 0..MaxRetriesBound,
                 startF : {"FI"}, numValue : {0}, failAttempts : 0..MaxRetriesBound,
                 batchCls : {"BatchFlow"}, startB : {"A"}, items : {0},
                 own : {NoParams}, sync : {TRUE}, wait : {0}, fallback : {"default"}, label : {""}, dispatch : {FALSE}]
                \cup
                {c \in [scn : {"batch"}, impl : {"fw", "pg", "nt"}, maxRetries : {1},
                        startF : {"FI"}, numValue : {0}, failAttempts : {0},
                        batchCls : BatchClasses, startB : {"A", "AddPos"},
                        items : 0..MaxItems, own : ParamSets, sync : {FALSE}, wait : {0},
                        fallback : {"default"}, label : {""}, dispatch : {FALSE}] :
                    \/ c.impl = "fw" /\ c.batchCls = "BatchFlow"
                    \/ c.impl = "pg"
                    \/ c.impl = "nt" /\ c.batchCls # "BatchFlow"}
                \cup
                {c \in [scn : {"bnode"}, impl : {"pg", "nt"},
                        maxRetries : 1..MaxRetriesBound,
                        startF : {"FI"}, numValue : {0}, failAttempts : {0},
                        batchCls : BatchNodeClasses, startB : {"A"},
                        items : 0..MaxItems, own : {NoParams}, sync : BOOLEAN,
                        wait : {0}, fallback : {"default"}, label : {""},
                        dispatch : BOOLEAN] :
                    /\ c.sync <=> c.batchCls = "BatchNode"
                    /\ c.impl = "nt" => c.batchCls # "BatchNode"
                    /\ c.dispatch => c.impl = "nt"}
                \cup
                [scn : {"concw"}, impl : {"pg"}, maxRetries : {MaxRetriesBound},
                 startF : {"FI"}, numValue : {0}, failAttempts : 1..MaxRetriesBound,
                 batchCls : {"BatchFlow"}, startB : {"A"}, items : {0},
                 own : {NoParams}, sync : BOOLEAN, wait : {1}, fallback : {"default"},
                 label : {""}, dispatch : {FALSE}]
                \cup
                {c \in [scn : {"race"}, impl : {"fw", "pg", "nt"}, maxRetries : {1},
                        startF : {"FI"}, numValue : {0}, failAttempts : {0},
                        batchCls : {"BatchFlow", "AsyncBatchFlow",
                                    "AsyncParallelBatchFlow"},
                        startB : {"A"}, items : 0..MaxItems, own : {NoParams},
                        sync : {FALSE}, wait : {0}, fallback : {"default"},
                        label : {""}, dispatch : {FALSE}] :
                    \/ c.impl = "fw" /\ c.batchCls = "BatchFlow"
                    \/ c.impl = "pg" /\ c.batchCls # "BatchFlow"
                    \/ c.impl = "nt" /\ c.batchCls = "AsyncParallelBatchFlow"})
    /\ heap = WiredHeap
    /\ calls = 0
    /\ lastCall = NoCall
    /\ firstReg = [id \in ScenarioNodes(cfg.scn) |-> NoSuccessors]
    /\ shared = [has |-> TRUE, value |-> 0]
    /\ status = [t \in Threads |-> "idle"]
    /\ stack = [t \in Threads |-> <<>>]
    /\ result = [t \in Threads |-> [label |-> "", err |-> NoErr]]
    /\ logs = [t \in Threads |-> <<>>]
    /\ steps = 0
    /\ travs = 0

NextPar ==
    \/ \E t \in Callers(cfg.scn), u \in Entries(cfg.scn) : callRun(t, u)
    \/ \E t \in Threads : run_prep(t)
    \/ \E t \in Threads : execWrapper(t)
    \/ \E t \in Threads : retryWait(t)
    \/ \E t \in Threads : retriesExhausted(t)
    \/ \E t \in Threads : execFallback(t)
    \/ \E t \in Threads : BatchNode_start(t)
    \/ \E t \in Threads : exec_return(t)
    \/ \E t \in Threads : BatchNode_fail(t)
    \/ \E t \in Threads : BatchNode_join(t)
    \/ \E t \in Threads : execCore_sleep(t)
    \/ \E t \in Threads : timerFires(t)
    \/ \E t \in Threads : run_post(t)
    \/ \E t \in Threads : Flow_prep(t)
    \/ \E t \in Threads : orchestrate_start(t)
    \/ \E t \in Threads : orchestrate_advance(t)
    \/ \E t \in Threads : orchestrate_finish(t)
    \/ \E t \in Threads : Flow_post(t)
    \/ \E t \in Threads : Batch_prep(t)
    \/ \E t \in Threads : Batch_start(t)
    \/ \E t \in Threads : Batch_fail(t)
    \/ \E t \in Threads : Batch_post(t)

SpecPar == InitPar /\ [][NextPar]_vars

TypeOK ==
    /\ calls \in 0..(MaxCalls + 5)
    /\ steps \in 0..(MaxSteps + 8)
    /\ \A t \in Threads : status[t] \in {"idle", "running", "resolved", "rejected"}

\* ------------------------------------------------------------ properties
\* the phase invocations of the units run by traversal tr (0: the entry call)
TravSeq(tr) == SelectSeq(log, LAMBDA e : e.trav = tr)

IsPost(e) == e.ph = "post" /\ e.ok
NoSucc(e) == e.lab \notin Labels \/ heap[e.id].successors[e.lab] = NoNode

\* C1: within one traversal the units run one after another: a unit's prep
\* starts only after the previous unit's post has returned, and inside a unit
\* the phases run in the order prep, exec (attempts), post, with exec receiving
\* prep's result and post receiving prep's and exec's results.
C1_Sequencing ==
    cfg.impl = "fw" =>
    \A tr \in 1..travs :
        LET S == TravSeq(tr)
        IN  \A j \in 1..Len(S) :
              CASE S[j].ph = "prep" -> j = 1 \/ IsPost(S[j-1])
                [] S[j].ph = "exec" ->
                      /\ j > 1
                      /\ S[j-1].id = S[j].id
                      /\ \/ S[j-1].ph = "prep" /\ S[j-1].ok /\ S[j].i = 1
                            /\ S[j].pr = S[j-1].pr
                         \/ S[j-1].ph = "wait" /\ S[j].i = S[j-1].i + 1
                            /\ S[j].pr = S[j-2].pr
                [] S[j].ph = "wait" ->
                      /\ j > 1
                      /\ S[j-1].id = S[j].id
                      /\ S[j-1].ph = "exec" /\ ~S[j-1].ok /\ S[j].i = S[j-1].i
                [] OTHER ->
                      /\ j > 1
                      /\ S[j-1].id = S[j].id
                      /\ IF IsFlowClass(S[j].cls)
                         THEN S[j-1].ph = "prep" /\ S[j-1].ok /\ S[j].pr = S[j-1].pr
                         ELSE /\ S[j-1].ph = "exec" /\ S[j-1].ok
                              /\ S[j].pr = S[j-1].pr /\ S[j].er = S[j-1].er

\* two units of one traversal have completed all their phases
C1_Witness ==
    /\ cfg.impl = "fw"
    /\ \E tr \in 1..travs :
          LET S == TravSeq(tr)
          IN  /\ Len(S) >= 6
              /\ IsPost(S[Len(S)])
              /\ ~IsFlowClass(S[Len(S)].cls)
              /\ ~IsFlowClass(S[1].cls)

BranchWired ==
    /\ heap["Num"].successors["default"] = "Check"
    /\ heap["Check"].successors["positive"] = "AddPos"
    /\ heap["Check"].successors["negative"] = "AddNeg"

\* C2: the unit run next in a traversal is the one registered on the current
\* unit under the label its post returned; with Check wired to Add(10) on
\* "positive" and Add(-20) on "negative", Number(5) ends with 15 and
\* Number(-5) with -25, and the other branch is not run.
C2_SuccessorByLabel ==
    cfg.impl = "fw" =>
    /\ \A tr \in 1..travs :
          LET S == TravSeq(tr)
          IN  \A j \in 1..(Len(S) - 1) :
                S[j+1].ph = "prep" =>
                    /\ IsPost(S[j])
                    /\ S[j].lab \in Labels
                    /\ heap[S[j].id].successors[S[j].lab] = S[j+1].id
    /\ (cfg.scn = "branch" /\ BranchWired /\ status["main"] = "resolved") =>
          /\ shared.value = IF cfg.numValue = 5 THEN 15 ELSE -25
          /\ \A k \in 1..Len(log) :
                log[k].id # (IF cfg.numValue = 5 THEN "AddNeg" ELSE "AddPos")

\* the negative branch of the wired branching pipeline has run to its end
C2_Witness ==
    /\ cfg.scn = "branch" /\ BranchWired /\ status["main"] = "resolved"
    /\ shared.value = -25
    /\ \E k \in 1..Len(log) : log[k].id = "AddNeg" /\ IsPost(log[k])

\* C3: when a unit's post returns a label without a registered successor the
\* traversal ends normally: no error, no further unit, and the next thing
\* invoked is the post of the Flow that owns the traversal.
C3_TerminatesOnMissingSuccessor ==
    cfg.impl = "fw" =>
    \A k \in 1..Len(log) :
        (IsPost(log[k]) /\ log[k].trav >= 1 /\ NoSucc(log[k])) =>
            IF k = Len(log)
            THEN status["main"] = "running" /\ result["main"].err = NoErr
            ELSE /\ IsPost(log[k+1])
                 /\ IsFlowClass(log[k+1].cls)
                 /\ log[k+1].i = log[k].trav

\* a unit with a "default" successor returned the unregistered label "a" and
\* the run of the Flow resolved
C3_Witness ==
    /\ cfg.impl = "fw"
    /\ status["main"] = "resolved"
    /\ \E k \in 1..Len(log) :
          /\ IsPost(log[k]) /\ log[k].trav >= 1 /\ log[k].lab = "a"
          /\ heap[log[k].id].successors["a"] = NoNode
          /\ heap[log[k].id].successors["default"] # NoNode

\* C4: a second addSuccessor with an already registered label (the default
\* label included) raises an error and leaves the successor table as it was:
\* every label still maps to the successor registered first.
C4_DuplicateSuccessorRejected ==
    cfg.impl = "fw" =>
    /\ (lastCall.op = "addSuccessor" /\ lastCall.had) => lastCall.threw
    /\ \A u \in DOMAIN heap, l \in Labels : heap[u].successors[l] = firstReg[u][l]

\* a second registration without a label, on a unit that has a "default"
\* successor, with another successor, has thrown
C4_Witness ==
    /\ cfg.impl = "fw"
    /\ lastCall.op = "addSuccessor" /\ lastCall.had /\ lastCall.threw
    /\ lastCall.l = Undefined /\ lastCall.action = DEFAULT_ACTION
    /\ heap[lastCall.u].successors[lastCall.action] # lastCall.v

\* the events of the unit run that starts with the prep at index p
Block(p) ==
    {q \in (p + 1)..Len(log) :
        \A r \in (p + 1)..q :
            log[r].id = log[p].id /\ log[r].trav = log[p].trav /\ log[r].ph # "prep"}
Execs(p) == {q \in Block(p) : log[q].ph = "exec"}
AllFail(p) == \A q \in Execs(p) : ~log[q].ok
RetryPreps ==
    {p \in 1..Len(log) : log[p].ph = "prep" /\ log[p].ok /\ IsRetryClass(log[p].cls)}

\* C5: a RetryNode with maxRetries = k >= 1 whose execCore fails every time
\* makes exactly k attempts, never reaches post, and its run ends with the
\* max-retries error carrying k.
C5_RetryExhausted ==
    (cfg.impl = "fw" /\ cfg.maxRetries >= 1) =>
    \A p \in RetryPreps :
        AllFail(p) =>
            /\ Block(p) = (p + 1)..Len(log)
            /\ \A q \in Block(p) : log[q].ph # "post"
            /\ Cardinality(Execs(p)) <= cfg.maxRetries
            /\ status["main"] # "resolved"
            /\ status["main"] = "rejected" =>
                  /\ Cardinality(Execs(p)) = cfg.maxRetries
                  /\ result["main"].err =
                        [type |-> "MaxRetries", id |-> log[p].id, n |-> cfg.maxRetries]

\* a retrying unit with maxRetries = 2 has failed twice and its run was rejected
C5_Witness ==
    /\ cfg.impl = "fw" /\ cfg.maxRetries = 2
    /\ status["main"] = "rejected"
    /\ result["main"].err.type = "MaxRetries"
    /\ \E p \in RetryPreps : AllFail(p) /\ Cardinality(Execs(p)) = 2

\* C6: when execCore of a RetryNode succeeds on attempt f+1 after f failures
\* (f < maxRetries), exactly f+1 attempts were made one after another, post
\* receives the result of the successful attempt, and a standalone run
\* returns post's label without error.
C6_RetrySuccess ==
    cfg.impl = "fw" =>
    \A q \in 1..Len(log) :
        (log[q].ph = "exec" /\ log[q].ok /\ IsRetryClass(log[q].cls)) =>
            LET n == log[q].i
                p == q - 2 * (n - 1) - 1
            IN  /\ n >= 1 /\ n <= cfg.maxRetries
                /\ p >= 1
                /\ p \in RetryPreps /\ log[p].id = log[q].id /\ log[p].trav = log[q].trav
                /\ \A m \in 1..(n - 1) :
                      /\ log[p + 2*m - 1].ph = "exec" /\ ~log[p + 2*m - 1].ok
                      /\ log[p + 2*m - 1].i = m
                      /\ log[p + 2*m].ph = "wait"
                /\ log[q].er = [tag |-> "exec", id |-> log[q].id, n |-> n]
                /\ IF q = Len(log)
                   THEN status["main"] = "running"
                   ELSE /\ log[q+1].ph = "post"
                        /\ log[q+1].id = log[q].id /\ log[q+1].trav = log[q].trav
                        /\ log[q+1].er = log[q].er
                        /\ log[q+1].pr = log[p].pr
                        /\ (log[q+1].ok /\ log[q+1].trav = 0) =>
                              /\ status["main"] = "resolved"
                              /\ result["main"] = [label |-> log[q+1].lab, err |-> NoErr]

\* a standalone retrying unit failed once, succeeded on its second attempt and
\* its run resolved
C6_Witness ==
    /\ cfg.impl = "fw"
    /\ status["main"] = "resolved"
    /\ Len(log) = 5
    /\ log[1].trav = 0 /\ IsRetryClass(log[1].cls)
    /\ log[4].ph = "exec" /\ log[4].ok /\ log[4].i = 2
    /\ result["main"].label = "a"

\* C7: a failure of prep or post is never retried: the failing call is the
\* last phase invoked and the run is rejected with that error.
C7_PrepPostNotRetried ==
    \A k \in 1..Len(log) :
        (log[k].ph \in {"prep", "post"} /\ ~log[k].ok) =>
            /\ k = Len(log)
            /\ status["main"] = "rejected"
            /\ result["main"].err = HookErr(log[k].id)

\* the post of a RetryNode failed after a retried execCore
C7_Witness ==
    /\ cfg.impl = "fw"
    /\ Len(log) >= 5
    /\ LET e == log[Len(log)]
       IN  /\ e.ph = "post" /\ ~e.ok /\ IsRetryClass(e.cls)
           /\ log[Len(log) - 1].ph = "exec" /\ log[Len(log) - 1].i = 2
    /\ status["main"] = "rejected"

\* the prep of Flow.run that opened traversal tr
Owner(tr) ==
    CHOOSE p \in 1..Len(log) :
        log[p].ph = "prep" /\ IsFlowClass(log[p].cls) /\ log[p].i = tr

RECURSIVE EnclosingTravs(_)
EnclosingTravs(tr) ==
    IF tr = 0 THEN {} ELSE {tr} \cup EnclosingTravs(log[Owner(tr)].trav)

\* a hook failure nothing catches
Fatal(k) ==
    /\ ~log[k].ok
    /\ \/ log[k].ph \in {"prep", "post"}
       \/ log[k].ph = "exec" /\ ~IsRetryClass(log[k].cls)

\* the point after which execWrapper has no attempt left
Exhausting(k) ==
    /\ IsRetryClass(log[k].cls)
    /\ \/ log[k].ph = "wait" /\ log[k].i >= cfg.maxRetries
       \/ log[k].ph = "prep" /\ log[k].ok /\ cfg.maxRetries = 0

\* C8: an unrecovered failure of a unit inside a traversal ends the run of
\* the Flow and of every enclosing Flow with an error: nothing is invoked
\* after the failure, in particular no post of an enclosing Flow.
C8_ErrorPropagates ==
    cfg.impl = "fw" =>
    /\ \A k \in 1..Len(log) :
          (Fatal(k) \/ Exhausting(k)) =>
              /\ k = Len(log)
              /\ status["main"] # "resolved"
              /\ Fatal(k) => status["main"] = "rejected"
              /\ \A tr \in EnclosingTravs(log[k].trav) :
                    \A j \in 1..Len(log) :
                        ~(log[j].ph = "post" /\ IsFlowClass(log[j].cls) /\ log[j].i = tr)
    /\ status["main"] = "rejected" =>
          /\ result["main"].err # NoErr
          /\ stack["main"] = <<>>
          /\ Len(log) >= 1 /\ (Fatal(Len(log)) \/ Exhausting(Len(log)))

\* a unit of a Flow nested in another Flow failed and the outer run was rejected
C8_Witness ==
    /\ cfg.impl = "fw"
    /\ status["main"] = "rejected"
    /\ Len(log) >= 3
    /\ Cardinality(EnclosingTravs(log[Len(log)].trav)) >= 2

\* C9: the execution phase of a Flow is invoked only by a direct call, which
\* fails with a usage error and runs no unit; Flow.run never invokes it.
C9_FlowExecIsUsageError ==
    \A k \in 1..Len(log) :
        (log[k].ph = "exec" /\ IsFlowClass(log[k].cls)) =>
            /\ Len(log) = 1
            /\ ~log[k].ok
            /\ status["main"] = "rejected"
            /\ result["main"].err = FlowExecErr(log[k].id)
            /\ steps = 0 /\ travs = 0

\* execCore / exec was called directly on a wired Flow
C9_Witness ==
    /\ status["main"] = "rejected"
    /\ result["main"].err.type = "FlowExec"
    /\ Len(log) = 1 /\ log[1].ph = "exec"
    /\ \E l \in Labels : heap[StartOf(log[1].id)].successors[l] # NoNode

FlowPreps(tr) ==
    {p \in 1..Len(log) : log[p].ph = "prep" /\ IsFlowClass(log[p].cls) /\ log[p].i = tr}
FlowPosts(tr) ==
    {p \in 1..Len(log) : log[p].ph = "post" /\ IsFlowClass(log[p].cls) /\ log[p].i = tr}

\* C10: Flow.run invokes the Flow's prep once, then the whole traversal from
\* the start unit until a label has no successor, then the Flow's post once,
\* with prep's result and an undefined exec result, and returns post's label
\* (DEFAULT_ACTION for an un-overridden Flow).
C10_FlowRunOrder ==
    cfg.impl = "fw" =>
    /\ \A tr \in 1..travs : Cardinality(FlowPreps(tr)) = 1 /\ Cardinality(FlowPosts(tr)) <= 1
    /\ \A k \in 1..Len(log) :
          (log[k].ph = "post" /\ IsFlowClass(log[k].cls)) =>
              LET tr == log[k].i
                  p == Owner(tr)
              IN  /\ tr \in 1..travs
                  /\ p < k - 1
                  /\ log[p].id = log[k].id /\ log[p].trav = log[k].trav
                  /\ log[p+1].ph = "prep" /\ log[p+1].trav = tr
                  /\ log[p+1].id = StartOf(log[p].id)
                  /\ \A j \in (p + 1)..(k - 1) : tr \in EnclosingTravs(log[j].trav)
                  /\ IsPost(log[k-1]) /\ log[k-1].trav = tr /\ NoSucc(log[k-1])
                  /\ log[k].pr = log[p].pr
                  /\ log[k].pr = [tag |-> "obj", id |-> log[k].id, n |-> 0]
                  /\ log[k].er = NoVal
                  /\ log[k].cls = "Flow" => log[k].lab = DEFAULT_ACTION
    /\ (status["main"] = "resolved" /\ IsFlowClass(log[1].cls)) =>
          /\ log[1].ph = "prep"
          /\ FlowPosts(log[1].i) = {Len(log)}
          /\ result["main"] = [label |-> log[Len(log)].lab, err |-> NoErr]

\* the run of an un-overridden Flow whose last unit returned "a" resolved with
\* the label "default"
C10_Witness ==
    /\ cfg.impl = "fw"
    /\ status["main"] = "resolved"
    /\ Len(log) >= 5
    /\ log[1].cls = "Flow" /\ log[1].trav = 0
    /\ log[Len(log) - 1].lab = "a"
    /\ result["main"].label = DEFAULT_ACTION

NestedWired ==
    /\ heap["FN"].successors["default"] = "Add3"
    /\ heap["FM"].successors["default"] = "Mul4"

\* the runs of a Flow as a unit of another Flow's traversal
NestedPreps ==
    {p \in 1..Len(log) : log[p].ph = "prep" /\ IsFlowClass(log[p].cls) /\ log[p].trav >= 1}

\* C11: a Flow nested in another Flow's graph is one step of the outer
\* traversal: between the inner Flow's prep and post only units of the inner
\* graph run, the inner graph runs until a label has no successor, and the
\* outer traversal then goes on with the successor registered on the inner
\* Flow under the label its post returned (or ends if there is none), all on
\* the one shared state: Number(5) in a Flow followed by Add(3), in a Flow
\* followed by Multiply(4), in a Flow, ends with 32.
C11_NestedFlowIsOneStep ==
    cfg.impl = "fw" =>
    /\ \A p \in NestedPreps :
          LET tr == log[p].i
              outer == log[p].trav
          IN  IF FlowPosts(tr) = {}
              THEN \A j \in (p + 1)..Len(log) : tr \in EnclosingTravs(log[j].trav)
              ELSE LET q == CHOOSE x \in FlowPosts(tr) : TRUE
                   IN  /\ q > p + 1
                       /\ log[q].id = log[p].id /\ log[q].trav = outer
                       /\ \A j \in (p + 1)..(q - 1) : tr \in EnclosingTravs(log[j].trav)
                       /\ IsPost(log[q-1]) /\ log[q-1].trav = tr /\ NoSucc(log[q-1])
                       /\ q < Len(log) =>
                             IF NoSucc(log[q])
                             THEN /\ IsPost(log[q+1]) /\ IsFlowClass(log[q+1].cls)
                                  /\ log[q+1].i = outer
                             ELSE /\ log[q+1].ph = "prep" /\ log[q+1].trav = outer
                                  /\ log[q+1].id = heap[log[q].id].successors[log[q].lab]
    /\ (cfg.scn = "nested" /\ NestedWired /\ status["main"] = "resolved") =>
          /\ shared.value = 32
          /\ \E k \in 1..Len(log) : log[k].id = "Mul4" /\ IsPost(log[k])

\* the three-level nested pipeline of the test has run to its end
C11_Witness ==
    /\ cfg.scn = "nested" /\ NestedWired /\ status["main"] = "resolved"
    /\ shared.value = 32
    /\ Cardinality(NestedPreps) = 2

\* C12: in a traversal of the framework's Flow, a unit whose post returned
\* undefined is followed by the successor registered under "default" when
\* there is one; the traversal ends there only without a "default" successor.
C12_UndefinedIsDefault ==
    cfg.impl = "fw" =>
    \A k \in 1..(Len(log) - 1) :
        (IsPost(log[k]) /\ log[k].trav >= 1 /\ log[k].lab = Undefined
            /\ heap[log[k].id].successors[DEFAULT_ACTION] # NoNode) =>
            /\ log[k+1].ph = "prep"
            /\ log[k+1].trav = log[k].trav
            /\ log[k+1].id = heap[log[k].id].successors[DEFAULT_ACTION]

\* what a run of the flaky unit does when nothing else runs: execWrapper on
\* a unit that has been called `attempt` times, at loop index i
RECURSIVE SoloRun(_, _)
SoloRun(i, attempt) ==
    IF i >= cfg.maxRetries THEN [ok |-> FALSE, n |-> i]
    ELSE IF attempt + 1 <= cfg.failAttempts THEN SoloRun(i + 1, attempt + 1)
    ELSE [ok |-> TRUE, n |-> i + 1]

FlakyExecs(t) == SelectSeq(logs[t], LAMBDA e : e.ph = "exec" /\ e.cls = "Flaky")

\* C13: two concurrent runs of one Flow over a retrying unit do not share the
\* unit's execution state: in each run the attempts of the unit fail and
\* succeed, and the run ends, exactly as in a run executed alone.
C13_ConcurrentRunsIsolated ==
    cfg.scn = "conc" =>
    \A t \in Callers(cfg.scn) :
        LET E == FlakyExecs(t)
            solo == SoloRun(0, 0)
        IN  /\ Len(E) <= solo.n
            /\ \A j \in 1..Len(E) : E[j].i = j /\ (E[j].ok <=> j > cfg.failAttempts)
            /\ status[t] \in {"resolved", "rejected"} =>
                  /\ Len(E) = solo.n
                  /\ (status[t] = "resolved") <=> solo.ok

\* both runs are in progress, each after one failed attempt of its unit, and
\* the unit is to succeed on its second attempt
C13_Witness ==
    /\ cfg.scn = "conc" /\ cfg.failAttempts = 1 /\ cfg.maxRetries = 2
    /\ \A t \in Callers(cfg.scn) :
          /\ Scheduled(t)
          /\ Len(FlakyExecs(t)) = 1

\* ---- batches: the traversal of parameter set j is the thread Br[j]
IsBatchRun == cfg.scn = "batch"
IsParallelBatch ==
    IsBatchRun /\ \/ cfg.impl = "fw" /\ cfg.batchCls = "BatchFlow"
                  \/ cfg.impl \in {"pg", "nt"} /\ cfg.batchCls = "AsyncParallelBatchFlow"
IsSequentialBatch ==
    IsBatchRun /\ cfg.impl \in {"pg", "nt"} /\ cfg.batchCls \in {"BatchFlow", "AsyncBatchFlow"}

ItemIds == 1..cfg.items
Started(j) == status[Br[j]] # "idle"
TravOf(j) == log[1].i + j - 1
BatchPosts == {p \in 1..Len(log) : log[p].ph = "post" /\ IsBatchClass(log[p].cls)}

\* the traversal of parameter set j has run until a label had no successor
Terminated(j) ==
    LET L == logs[Br[j]]
    IN  /\ status[Br[j]] = "resolved"
        /\ stack[Br[j]] = <<>>
        /\ L # <<>>
        /\ IsPost(L[Len(L)]) /\ NoSucc(L[Len(L)])

\* the value of the shared state each Add unit of the batch saw after its own write
AddSaw(j) == SelectSeq(logs[Br[j]], LAMBDA e : e.ph = "exec" /\ e.cls = "Add")
AddPreps == {<<j, p>> \in (1..Len(Br)) \X (1..3) :
                p <= Len(logs[Br[j]]) /\ logs[Br[j]][p].ph = "prep" /\ logs[Br[j]][p].cls = "Add"}

\* C14: in a parallel batch run the orchestrator's post is invoked at most
\* once and only when the traversal of every parameter set has terminated,
\* and run has not returned before that post.
C14_ParallelJoin ==
    IsParallelBatch =>
    /\ Cardinality(BatchPosts) <= 1
    /\ BatchPosts # {} => \A j \in ItemIds : Terminated(j)
    /\ status["main"] = "resolved" =>
          /\ BatchPosts = {Len(log)}
          /\ \A j \in ItemIds : Terminated(j)
          /\ result["main"].label = log[Len(log)].lab

\* a parallel batch over two parameter sets has returned after both traversals
C14_Witness ==
    /\ IsParallelBatch /\ cfg.items = 2
    /\ status["main"] = "resolved"
    /\ BatchPosts # {}
    /\ \A j \in ItemIds : Terminated(j) /\ Len(logs[Br[j]]) >= 6

\* C15: in a parallel batch run, once the traversal of one parameter set has
\* failed the orchestrator's post is never invoked and run does not return
\* normally: it is rejected with an error of a failed traversal, as soon as
\* the join notices, whatever the other traversals do.
C15_ParallelFailFast ==
    (IsParallelBatch /\ \E j \in ItemIds : status[Br[j]] = "rejected") =>
        /\ BatchPosts = {}
        /\ status["main"] \in {"running", "rejected"}
        /\ status["main"] = "running" => ENABLED Batch_fail("main")
        /\ status["main"] = "rejected" =>
              \E j \in ItemIds : /\ status[Br[j]] = "rejected"
                                  /\ result["main"].err = result[Br[j]].err
                                  /\ result["main"].err # NoErr

\* one traversal failed, the other ran to its end, and run was rejected
C15_Witness ==
    /\ IsParallelBatch /\ cfg.items = 2
    /\ status["main"] = "rejected"
    /\ status[Br[1]] = "rejected"
    /\ Terminated(2)

\* C16: the framework's BatchFlow.run calls orchestrate for every parameter
\* set before it awaits any of the calls: as soon as one traversal is under
\* way all of them are.
C16_AllStartedTogether ==
    (IsBatchRun /\ cfg.impl = "fw") =>
        \A j \in ItemIds : Started(j) => \A m \in ItemIds : Started(m)

\* the units of both traversals are suspended on their timers at the same time
C16_Witness ==
    /\ IsBatchRun /\ cfg.impl = "fw" /\ cfg.items = 2
    /\ \A j \in ItemIds :
          /\ status[Br[j]] = "running"
          /\ stack[Br[j]][Len(stack[Br[j]])].pc = "sleep"

\* C17 as stated: the framework's BatchFlow starts the traversal of parameter
\* set j+1 only after the traversal of parameter set j has completed.
C17_StrictlySequential ==
    (IsBatchRun /\ cfg.impl = "fw") =>
        \A j \in ItemIds : (j + 1 \in ItemIds /\ Started(j + 1)) => Terminated(j)

\* C17 amended: the framework's BatchFlow runs orchestrate exactly once per
\* parameter set, each call with its own traversal, all on the one shared
\* state and concurrently: every write lands in the same object, and a
\* traversal sees the writes made so far by the others, whether they come
\* earlier or later in the list.
C17_OncePerItemConcurrent ==
    (IsBatchRun /\ cfg.impl = "fw") =>
        /\ \A j \in 1..Len(Br) :
              IF j \in ItemIds
              THEN \A p \in 1..Len(logs[Br[j]]) : logs[Br[j]][p].trav = TravOf(j)
              ELSE ~Started(j) /\ logs[Br[j]] = <<>>
        /\ shared.value = 10 * Cardinality(AddPreps)
        /\ \A j \in ItemIds :
              /\ Len(AddSaw(j)) <= 1
              /\ \A p \in 1..Len(AddSaw(j)) :
                    \E m \in ItemIds : AddSaw(j)[p].er.n = 10 * m

\* the traversal of the first parameter set saw the write of the second
C17_Witness ==
    /\ IsBatchRun /\ cfg.impl = "fw" /\ cfg.items = 2
    /\ status["main"] = "resolved"
    /\ Len(AddSaw(1)) = 1 /\ AddSaw(1)[1].er.n = 20

\* C18: a sequential batch orchestrator traverses the graph once per
\* parameter set, in list order and on the one shared state; the traversal
\* of parameter set j+1 starts only after that of parameter set j has
\* terminated, and post is called once, after the last traversal.
C18_SequentialBatch ==
    IsSequentialBatch =>
        /\ \A j \in 1..Len(Br) :
              IF j \in ItemIds
              THEN /\ \A p \in 1..Len(logs[Br[j]]) : logs[Br[j]][p].trav = TravOf(j)
                   /\ (j + 1 \in ItemIds /\ Started(j + 1)) => Terminated(j)
                   /\ \A p \in 1..Len(AddSaw(j)) : AddSaw(j)[p].er.n = 10 * j
              ELSE ~Started(j) /\ logs[Br[j]] = <<>>
        /\ Cardinality(BatchPosts) <= 1
        /\ BatchPosts # {} => \A j \in ItemIds : Terminated(j)
        /\ status["main"] = "resolved" =>
              /\ BatchPosts = {Len(log)}
              /\ cfg.startB = "AddPos" => shared.value = 10 * cfg.items

\* a sequential batch over two parameter sets has run both traversals and returned
C18_Witness ==
    /\ IsSequentialBatch /\ cfg.items = 2 /\ cfg.startB = "AddPos"
    /\ status["main"] = "resolved"
    /\ shared.value = 20
    /\ \A j \in ItemIds : Terminated(j)

\* the phase invocations of the units run for parameter set j
UnitEvents(j) == {p \in 1..Len(logs[Br[j]]) : ~IsFlowClass(logs[Br[j]][p].cls)}

C20_ParamsMerged ==
    IsBatchRun =>
        \A j \in ItemIds : \A p \in UnitEvents(j) :
            logs[Br[j]][p].params = Merge(cfg.own, Item(j))

\* ---- retry with a fallback hook (pocketgraph Node / AsyncNode, nodes.ts AsyncNode)
Fallbacks == {q \in 1..Len(log) : log[q].ph = "fallback"}
FallbacksIn(p) == {q \in Block(p) : log[q].ph = "fallback"}

\* C21: in pocketgraph and nodes.ts, with maxRetries >= 1: the fallback is
\* invoked only right after the failure of attempt number maxRetries, once,
\* with the prep result and the error of that attempt; a value it returns is
\* the exec result handed to post of the same unit, and the run goes on; an
\* error it raises (the default fallback: the last attempt's own error) ends
\* the run with that error and post is not invoked.
C21_FallbackOnceAfterLastAttempt ==
    (cfg.impl \in {"pg", "nt"} /\ cfg.maxRetries >= 1) =>
    /\ \A q \in Fallbacks :
          /\ q > 2
          /\ log[q-1].ph = "exec" /\ ~log[q-1].ok
          /\ log[q-1].id = log[q].id /\ log[q-1].trav = log[q].trav
          /\ log[q-1].i = cfg.maxRetries
          /\ log[q].i = log[q-1].i
          /\ log[q].pr = log[q-1].pr
          /\ IF log[q].ok
             THEN IF q = Len(log)
                  THEN status["main"] = "running"
                  ELSE /\ log[q+1].ph = "post"
                       /\ log[q+1].id = log[q].id /\ log[q+1].trav = log[q].trav
                       /\ log[q+1].er = log[q].er /\ log[q+1].pr = log[q].pr
             ELSE /\ q = Len(log)
                  /\ status["main"] = "rejected"
                  /\ result["main"].err =
                        IF cfg.fallback = "raise" THEN FallbackErr(log[q].id)
                        ELSE AttemptErr([id |-> log[q].id, cls |-> log[q].cls],
                                        cfg.maxRetries)
    /\ \A p \in RetryPreps :
          /\ Cardinality(FallbacksIn(p)) <= 1
          /\ Cardinality(Execs(p)) <= cfg.maxRetries
          /\ \A q \in Execs(p) : log[q].pr = log[p].pr
          /\ (AllFail(p) /\ Cardinality(Execs(p)) = cfg.maxRetries) =>
                \/ FallbacksIn(p) # {}
                \/ /\ status["main"] = "running"
                   /\ Top("main").pc = "fallback"
                   /\ Top("main").self.id = log[p].id
          /\ \A q \in Block(p) : (log[q].ph = "post" /\ AllFail(p)) =>
                \E r \in FallbacksIn(p) : log[r].ok /\ r = q - 1

\* inside a Flow, a unit with maxRetries = 2 failed twice, its fallback
\* returned a value, and the traversal went on to its successor and ended
C21_Witness ==
    /\ cfg.scn = "retry" /\ cfg.impl = "nt" /\ cfg.maxRetries = 2
    /\ status["main"] = "resolved"
    /\ \E q \in Fallbacks :
          /\ log[q].ok /\ log[q].trav >= 1 /\ log[q].i = 2
          /\ \E r \in (q + 2)..Len(log) : log[r].id = "A" /\ IsPost(log[r])

CycleWired ==
    /\ heap["Num"].successors["default"] = "Check"
    /\ heap["Check"].successors["positive"] = "Sub3"
    /\ heap["Check"].successors["negative"] = "NoOp"
    /\ heap["Sub3"].successors["default"] = "Check"

\* the caller has invoked run (not execCore) on the scenario's Flow
FlowRunCalled == status["main"] # "idle" /\ (log # <<>> => log[1].ph = "prep")

\* the values Check was visited with, and the runs of Subtract
CheckSaw == SelectSeq(log, LAMBDA e : e.id = "Check" /\ e.ph = "exec")
SubtractRuns == {p \in 1..Len(log) : log[p].id = "Sub3" /\ log[p].ph = "prep"}

\* C22: a Flow over a cyclic graph revisits units: with Number(10) -> Check,
\* Check -"positive"-> Subtract(3) -> Check and Check -"negative"-> NoOp, the
\* traversal visits Check with the values 10, 7, 4, 1, -2 in that order, runs
\* Subtract exactly four times, then NoOp, and ends with the value -2.
C22_CycleRevisits ==
    (cfg.scn = "cycle" /\ CycleWired /\ FlowRunCalled) =>
        /\ Len(CheckSaw) <= 5
        /\ \A j \in 1..Len(CheckSaw) : CheckSaw[j].er.n = 10 - 3 * (j - 1)
        /\ Cardinality(SubtractRuns) <= 4
        /\ status["main"] # "rejected"
        /\ status["main"] = "resolved" =>
              /\ Len(CheckSaw) = 5
              /\ Cardinality(SubtractRuns) = 4
              /\ shared.value = -2
              /\ \E k \in 1..Len(log) :
                    /\ log[k].id = "NoOp" /\ IsPost(log[k])
                    /\ \A m \in (k + 1)..Len(log) : IsFlowClass(log[m].cls)

\* the cyclic pipeline of the test has run to its end
C22_Witness ==
    /\ cfg.scn = "cycle" /\ CycleWired /\ status["main"] = "resolved"
    /\ shared.value = -2
    /\ Len(CheckSaw) = 5

AsyncNestWired ==
    /\ cfg.startF = "Num" => heap["Num"].successors["default"] = "FA"
    /\ heap["FA"].successors["default"] = "Mul4"

\* C23: an asynchronous orchestrator of pocketgraph or nodes.ts that is the
\* start unit of, or a successor in, the graph of an AsyncFlow is run by the
\* outer run like any unit: no usage error is raised (a run fails only when a
\* unit's own hook fails), and a run that returns has executed the inner
\* orchestrator's prep, its graph and its post, and then the inner
\* orchestrator's successor.
C23_NestedAsyncOrchestratorRuns ==
    (cfg.scn = "anest" /\ FlowRunCalled) =>
        /\ status["main"] = "rejected" => result["main"].err.type = "Hook"
        /\ (status["main"] = "resolved" /\ AsyncNestWired) =>
              \E p, q, r \in 1..Len(log) :
                  /\ p < q /\ q < r
                  /\ log[p].id = "FA" /\ log[p].ph = "prep"
                  /\ log[q].id = "FA" /\ IsPost(log[q])
                  /\ \E m \in (p + 1)..(q - 1) : log[m].id = "Add3" /\ IsPost(log[m])
                  /\ log[r].id = "Mul4" /\ IsPost(log[r])

\* ---------------------------------------------------------------- C24
\* the exec calls of the batch node, over all item calls
BatchExecs ==
    {e \in UNION {{logs[t][i] : i \in 1..Len(logs[t])} : t \in Threads} :
        e.ph = "exec" /\ e.cls \in BatchNodeClasses}

BatchNodePosts == {i \in 1..Len(log) : log[i].ph = "post" /\ log[i].cls \in BatchNodeClasses}

\* C24: a batch node (BatchNode, AsyncBatchNode, AsyncParallelBatchNode) whose
\* prep returns a list calls the per-item exec with one item at a time, once
\* per item (an item's exec succeeds once), and post receives the list of the
\* results in item order
C24_BatchNodePerItem ==
    cfg.scn = "bnode" =>
        /\ \A e \in BatchExecs : e.pr.tag = "item" /\ e.pr.n \in 1..cfg.items
        /\ \A i \in BatchNodePosts :
              /\ Len(log[i].list) = cfg.items
              /\ \A j \in 1..cfg.items :
                    /\ log[i].list[j].tag = "exec" /\ log[i].list[j].n = j
                    /\ Cardinality({e \in BatchExecs : e.ok /\ e.pr = ItemVal(j)}) = 1

\* the same for pocketgraph alone
BatchNodePerItem_pg == cfg.impl = "pg" => C24_BatchNodePerItem

\* ---------------------------------------------------------------- C25
Waits(t) == {i \in 1..Len(logs[t]) : logs[t][i].ph = "wait"}

\* the failed attempts after which another attempt is allowed
FailedNotLast(t) ==
    {i \in 1..Len(logs[t]) :
        /\ logs[t][i].ph = "exec" /\ ~logs[t][i].ok
        /\ IsRetryClass(logs[t][i].cls) /\ logs[t][i].i < cfg.maxRetries}

\* C25: a retrying unit waits only between attempts: every wait follows a
\* failed attempt that was not the last allowed one, and every such attempt is
\* followed by a wait (where a delay is configured), so a unit with
\* maxAttempts = k that always fails waits k-1 times
C25_WaitsOnlyBetweenAttempts ==
    \A t \in Threads :
        /\ \A i \in Waits(t) : i > 1 /\ (i - 1) \in FailedNotLast(t)
        /\ HasTimer(cfg.impl) =>
              \A i \in FailedNotLast(t) : i < Len(logs[t]) => (i + 1) \in Waits(t)

\* the same for pocketgraph and nodes.ts alone
WaitsOnlyBetweenAttempts_pg == cfg.impl # "fw" => C25_WaitsOnlyBetweenAttempts

\* ---------------------------------------------------------------- C26
\* task t can take its next step
TaskStep(t) ==
    \/ Flow_prep(t) \/ orchestrate_start(t) \/ orchestrate_advance(t)
    \/ orchestrate_finish(t) \/ Flow_post(t)
    \/ run_prep(t) \/ execWrapper(t) \/ retryWait(t) \/ retriesExhausted(t)
    \/ execFallback(t) \/ run_post(t)

\* task t is in the delay between two attempts of a retrying unit
InRetryDelay(t) ==
    /\ status[t] = "running" /\ stack[t] # <<>>
    /\ Top(t).fn \in {"run", "_exec"} /\ Top(t).pc = "wait"
    /\ HasTimer(cfg.impl)

\* C26: the delay between attempts does not block other tasks: while a
\* retrying unit of one traversal waits, every other concurrent traversal
\* that has work to do can take its next step
C26_RetryDelayDoesNotBlock ==
    \A t \in Threads : InRetryDelay(t) =>
        \A o \in Callers(cfg.scn) \ {t} :
            status[o] = "running" => ENABLED TaskStep(o)

\* the same for the units whose delay is an awaited timer
RetryDelayDoesNotBlock_async ==
    ~(cfg.impl = "pg" /\ cfg.sync) => C26_RetryDelayDoesNotBlock

\* ---------------------------------------------------------------- C27
\* the events that open a run (of a unit or of a Flow) in the log of task t
RunStarts(t) == {i \in 1..Len(logs[t]) : logs[t][i].ph = "prep"}

\* a run called by the caller, not by an orchestrator as a traversal step
Standalone(e) == e.trav = 0

\* C27: the "won't run successors" diagnostic is emitted exactly for the runs
\* of a unit with a registered successor that are called directly, never for
\* a traversal step, and it is not fatal: a warned run of a plain unit runs
\* that unit's phases only and returns the label of its post
C27_WarnsExactlyStandalone ==
    \A t \in Threads :
        /\ \A i \in RunStarts(t) :
              logs[t][i].warn <=> (Standalone(logs[t][i]) /\ logs[t][i].wired)
        /\ (/\ logs[t] # <<>> /\ logs[t][1].warn /\ ~IsFlowClass(logs[t][1].cls)
            /\ status[t] = "resolved")
           => /\ \A i \in 1..Len(logs[t]) : logs[t][i].id = logs[t][1].id
              /\ logs[t][Len(logs[t])].ph = "post"
              /\ result[t].label = logs[t][Len(logs[t])].lab

\* the same for pocketgraph alone
WarnsExactlyStandalone_pg == cfg.impl = "pg" => C27_WarnsExactlyStandalone

\* nodes.ts never warns about a traversal step
NoStepWarning_nt ==
    cfg.impl = "nt" =>
        \A t \in Threads : \A i \in RunStarts(t) :
            logs[t][i].warn => Standalone(logs[t][i])

\* ---------------------------------------------------------------- C28
\* the label-to-successor mapping of every wired unit
SuccessorTable == [u \in DOMAIN heap |-> heap[u].successors]

\* a run has been called: construction is over
RunTime == \E t \in Threads : status[t] # "idle"

\* C28: no step taken at run time (the call of run, the phases, the lookup
\* of the next unit, the copies, setParams on a step, whether the run goes on
\* to succeed or to fail) changes the successor table of a wired unit
C28_SuccessorTableImmutable ==
    [][(RunTime \/ RunTime') => SuccessorTable' = SuccessorTable]_vars

\* a traversal has followed a registered successor and the run has ended
C28_Witness ==
    /\ status["main"] \in {"resolved", "rejected"}
    /\ \E i \in 2..Len(log) :
          /\ log[i].ph = "prep" /\ log[i].trav > 0
          /\ log[i-1].ph = "post" /\ log[i-1].trav = log[i].trav /\ log[i-1].wired
          /\ heap[log[i-1].id].successors[IF log[i-1].lab \in Labels THEN log[i-1].lab
                                           ELSE DEFAULT_ACTION] = log[i].id

\* ---------------------------------------------------------------- C29
\* some task is inside the run of a Flow (or of one orchestrate call of it)
InFlowRun ==
    \E t \in Threads :
        stack[t] # <<>> /\ stack[t][1].fn \in {"flowrun", "batchrun", "orch"}

\* the object whose run is about to start as a traversal step is a copy that
\* holds the wired unit's values
StepIsFreshCopy(t) ==
    (/\ stack[t] # <<>> /\ Top(t).trav > 0
     /\ Top(t).fn \in {"run", "flowrun", "batchrun"} /\ Top(t).pc = "prep")
    => /\ Top(t).self.clone
       /\ Top(t).self.attempt = heap[Top(t).self.id].attempt
       /\ Top(t).self.curRetry = heap[Top(t).self.id].curRetry
       /\ Top(t).self.successors = heap[Top(t).self.id].successors

\* C29: a traversal runs only fresh copies: every visit of a unit (the first,
\* a repeated one in a cycle, one in a later run) starts from the wired
\* unit's values, and no step of a Flow run changes a wired unit (its config,
\* its attempt counter, its retry index), whether the run succeeds or fails
C29_TraversalRunsCopies ==
    /\ [](\A t \in Threads : StepIsFreshCopy(t))
    /\ [][InFlowRun => heap' = heap]_vars

\* a retrying unit was visited again in the same traversal after a visit in
\* which an attempt had failed, and the run has ended
C29_Witness ==
    /\ status["main"] \in {"resolved", "rejected"}
    /\ \E i, j \in 1..Len(log) :
          /\ i < j /\ log[i].id = log[j].id /\ log[i].trav = log[j].trav
          /\ log[i].trav > 0 /\ IsRetryClass(log[i].cls)
          /\ log[i].ph = "exec" /\ ~log[i].ok /\ log[j].ph = "prep"

\* ---------------------------------------------------------------- C30
\* task t holds an isolation copy
HoldsCopy(t) == stack[t] # <<>> /\ Top(t).fn = "clone"

\* C30: the isolation copy of a unit (plain, retrying or Flow) has the labels
\* of the unit, each mapped to the same target, and a config equal in value
\* to the unit's but deep-copied: a change made inside the copy's config
\* leaves the unit's config as it was
C30_CopyHasOwnConfig ==
    \A t \in Threads : HoldsCopy(t) =>
        /\ Top(t).self.successors = heap[Top(t).self.id].successors
        /\ Top(t).pc = "held" => Top(t).self.flow_params = heap[Top(t).self.id].flow_params
        /\ heap[Top(t).self.id].flow_params = Top(t).flowParams

\* the same for the framework's clone() alone
CopyHasOwnConfig_fw == cfg.impl = "fw" => C30_CopyHasOwnConfig

\* ---------------------------------------------------------------- C31
\* a batch flow whose prep returned the empty list has been run
EmptyBatchRun ==
    /\ cfg.scn = "batch" /\ cfg.items = 0
    /\ status["main"] # "idle"

\* C31: a batch flow whose prep returns the empty list runs no unit of its
\* graph (no orchestrate call is made, not even for the start unit) and its
\* run is not rejected: it ends with one call of the flow's own post, whose
\* label is the result of the run
C31_EmptyBatchRunsNothing ==
    EmptyBatchRun =>
        /\ \A j \in 1..Len(Br) : status[Br[j]] = "idle" /\ logs[Br[j]] = <<>>
        /\ \A i \in 1..Len(log) : log[i].id = "BF"
        /\ status["main"] # "rejected"
        /\ status["main"] = "resolved" =>
              /\ Len(log) = 2
              /\ log[1].ph = "prep" /\ log[1].pr.n = 0
              /\ log[2].ph = "post" /\ log[2].ok
              /\ result["main"].label = log[2].lab

C31_Witness == EmptyBatchRun /\ status["main"] = "resolved"

\* ---------------------------------------------------------------- C32
\* the key getNextNode looks up for the label of post event e
LookupKey(e) == IF e.lab = Undefined \/ e.lab = "" THEN DEFAULT_ACTION ELSE e.lab

\* a successor was registered on the unit of e under that key
RegisteredFor(e) ==
    LookupKey(e) \in Labels /\ heap[e.id].successors[LookupKey(e)] # NoNode

\* the posts of traversal steps that returned a label
StepPosts == {i \in 1..Len(log) : log[i].ph = "post" /\ log[i].ok /\ log[i].trav > 0}

\* C32: in the pocketgraph and nodes.ts orchestrators a step is followed by
\* another step of the traversal only if a successor was registered under the
\* label its post returned (and then by that successor); for every other
\* label, whatever the string, the traversal ends there without an error
C32_OnlyRegisteredSuccessors ==
    cfg.impl # "fw" =>
        \A i \in StepPosts :
            /\ (i < Len(log) /\ log[i+1].trav = log[i].trav) =>
                  /\ RegisteredFor(log[i])
                  /\ log[i+1].id = heap[log[i].id].successors[LookupKey(log[i])]
            /\ (~RegisteredFor(log[i]) /\ i = Len(log)) => status["main"] # "rejected"

\* the same for the labels that are not names inherited from Object.prototype
OnlyRegisteredSuccessors_own ==
    cfg.label \notin InheritedNames => C32_OnlyRegisteredSuccessors

\* ---------------------------------------------------------------- C33
\* a parallel batch over the Increment unit
ParallelRace ==
    /\ cfg.scn = "race"
    /\ \/ cfg.impl = "fw" /\ cfg.batchCls = "BatchFlow"
       \/ cfg.impl \in {"pg", "nt"} /\ cfg.batchCls = "AsyncParallelBatchFlow"

Branches == {Br[j] : j \in 1..Len(Br)}

\* C33: the core does not serialise parallel batch branches: whenever two
\* branches are pending, each of them can take its next step (their phases
\* interleave at every await), whatever the other is in the middle of; the
\* value left by branches that each store "value read in prep, plus one" is
\* therefore any number from 1 to the number of branches
C33_NoMutualExclusion ==
    ParallelRace =>
        /\ \A a, b \in Branches :
              (a # b /\ status[a] = "running" /\ status[b] = "running")
              => ENABLED TaskStep(a)
        /\ (status["main"] = "resolved" /\ cfg.items > 0) => shared.value \in 1..cfg.items

\* two branches have run and completed, and one update is lost
C33_Witness ==
    /\ ParallelRace /\ cfg.items = 2
    /\ status["main"] = "resolved"
    /\ shared.value = 1

\* a sequential batch loses no update
SequentialBatchCounts ==
    (cfg.scn = "race" /\ ~ParallelRace /\ status["main"] = "resolved")
    => shared.value = cfg.items

\* ---------------------------------------------------------------- C34
\* the run of the AsyncFlow whose asynchronous start unit leads to the regular
\* unit Rg has ended
MixedRunEnded ==
    /\ cfg.scn = "label" /\ cfg.label = "a"
    /\ heap["Nm"].successors["a"] = "Rg"
    /\ FlowRunCalled /\ status["main"] \in {"resolved", "rejected"}

\* the positions at which the three phases of unit u start in the log
PhasesOf(u) ==
    {i \in 1..(Len(log) - 2) :
        /\ log[i].id = u /\ log[i].ph = "prep" /\ log[i].ok
        /\ log[i+1].id = u /\ log[i+1].ph = "exec" /\ log[i+1].ok
        /\ log[i+2].id = u /\ log[i+2].ph = "post" /\ log[i+2].ok}

\* C34: an AsyncFlow traversal that reaches a regular (synchronous) unit
\* runs the unit's three phases and goes on with its successor; no error is
\* raised for the unit not being asynchronous
C34_AsyncFlowRunsRegularUnit ==
    MixedRunEnded =>
        /\ status["main"] = "resolved"
        /\ PhasesOf("Rg") # {}
        /\ heap["Rg"].successors["default"] = "Nm2" =>
              \E i \in PhasesOf("Rg"), j \in PhasesOf("Nm2") : j = i + 3

\* the same for pocketgraph alone
AsyncFlowRunsRegularUnit_pg == cfg.impl = "pg" => C34_AsyncFlowRunsRegularUnit

\* ---------------------------------------------------------------- C35
\* branch t can take its next step
BranchStep(t) == TaskStep(t) \/ execCore_sleep(t) \/ timerFires(t)

\* C35: in a parallel batch run a failed branch rejects the run at once (the
\* rejection of run needs nothing but that failure) and cancels nothing:
\* every branch that is still pending after run has been rejected can go on
\* with its next step
C35_FailureDoesNotCancel ==
    (IsParallelBatch \/ ParallelRace) =>
        /\ (/\ status["main"] = "running"
            /\ \E b \in Branches : status[b] = "rejected")
           => ENABLED Batch_fail("main")
        /\ status["main"] = "rejected" =>
              \A b \in Branches : status[b] = "running" => ENABLED BranchStep(b)

\* after the run was rejected a surviving branch has run its post and
\* written shared state
C35_Witness ==
    /\ ParallelRace /\ status["main"] = "rejected"
    /\ \E b \in Branches : \E i \in 1..Len(logs[b]) :
          /\ logs[b][i].ph = "post" /\ logs[b][i].ok /\ logs[b][i].late
          /\ shared.value = logs[b][i].pr.n + 1

-----------------------------------------------------------------------------
\* C36  An AsyncParallelBatchNode runs the calls of its items concurrently on
\* one node object, and each call has a retry budget of its own: in every
\* interleaving a finished call made at least one and at most maxRetries
\* attempts, every attempt but the last one failed, and a call whose last
\* attempt failed used the whole budget, whatever the other items did.
ParallelItems == cfg.scn = "bnode" /\ cfg.batchCls = "AsyncParallelBatchNode"

ItemAttempts(j) == SelectSeq(logs[Br[j]], LAMBDA e : e.ph = "exec")

ItemCallDone(j) == status[Br[j]] \in {"resolved", "rejected"}

OwnBudget(j) ==
    LET att == ItemAttempts(j)
        n == Len(att)
    IN  /\ n \in 1..cfg.maxRetries
        /\ \A a \in 1..n : att[a].pr = ItemVal(j)
        /\ \A a \in 1..(n - 1) : ~att[a].ok
        /\ ~att[n].ok => n = cfg.maxRetries

C36_PerItemRetryBudget ==
    ParallelItems => \A j \in 1..cfg.items : ItemCallDone(j) => OwnBudget(j)

\* pocketgraph counts the attempts of a call in a local variable
PerItemRetryBudget_pg == cfg.impl = "pg" => C36_PerItemRetryBudget

\* an item of pocketgraph that failed, was retried and succeeded while another
\* item of the same run used up its budget
PerItemRetryBudget_pgWitness ==
    /\ ParallelItems /\ cfg.impl = "pg" /\ cfg.items >= 2
    /\ \E j, m \in 1..cfg.items :
          /\ j # m /\ status[Br[j]] = "resolved" /\ status[Br[m]] = "rejected"
          /\ Len(ItemAttempts(j)) = 2 /\ Len(ItemAttempts(m)) = cfg.maxRetries

-----------------------------------------------------------------------------
\* C37  post of a retrying unit is invoked only right after an attempt of its
\* exec returned or its fallback returned a value, and post receives that
\* value as the exec result; this holds for every retry count, and with a
\* retry count of 0 the unit never reaches post.
RetryPosts ==
    {q \in 1..Len(log) : log[q].ph = "post" /\ IsRetryClass(log[q].cls)}

ProducedExecResult(r, q) ==
    /\ log[r].ph \in {"exec", "fallback"} /\ log[r].ok
    /\ log[r].id = log[q].id /\ log[r].trav = log[q].trav
    /\ log[q].er = log[r].er

C37_PostOnlyAfterResult ==
    \A q \in RetryPosts :
        /\ q > 1 /\ ProducedExecResult(q - 1, q)
        /\ MaxRetriesOf(log[q].id) >= 1

\* the framework's RetryNode throws once its loop is over
PostOnlyAfterResult_fw == cfg.impl = "fw" => C37_PostOnlyAfterResult

\* a retrying unit of the framework with a retry count of 0 was run and rejected
PostOnlyAfterResult_fwWitness ==
    /\ cfg.impl = "fw" /\ cfg.maxRetries = 0 /\ status["main"] = "rejected"
    /\ result["main"].err.type = "MaxRetries"
    /\ \E p \in RetryPreps : Block(p) = {}

\* with one attempt or more configured, pocketgraph and nodes.ts agree
PostOnlyAfterResult_positive == cfg.maxRetries >= 1 => C37_PostOnlyAfterResult

-----------------------------------------------------------------------------
\* C38  Over an acyclic successor graph orchestrate terminates, and a traversal
\* runs at most as many units as there are on the longest path from its start
\* unit.  The engine has no step bound of its own: over a cyclic graph whose
\* units always return a label that has a successor the run never ends, and
\* runs as many units as the behaviour is given room for (MaxSteps).
RECURSIVE LongestPath(_)
LongestPath(u) ==
    LET S == {LongestPath(v) : v \in Succ(u)}
    IN  1 + IF S = {} THEN 0 ELSE CHOOSE m \in S : \A o \in S : o <= m

UnitsRun(tr) == Len(SelectSeq(log, LAMBDA e : e.trav = tr /\ e.ph = "prep"))

StartUnit(tr) == TravSeq(tr)[1].id

Ended == status["main"] \in {"resolved", "rejected"}

\* the caller's run of a unit from which no cycle can be reached
AcyclicRun ==
    /\ status["main"] = "running"
    /\ stack["main"][1].fn # "clone"
    /\ Acyclic(stack["main"][1].self.id, TRUE)

SpinWired ==
    /\ heap["Tick"].successors["default"] = "Tock"
    /\ heap["Tock"].successors["default"] = "Tick"

\* the caller's run of the Flow over the two-unit loop, whose units never fail
Spinning ==
    /\ cfg.scn = "spin" /\ SpinWired /\ shared.has
    /\ status["main"] = "running"
    /\ stack["main"][1].fn = "flowrun"

C38_TerminationByGraphShape ==
    /\ [](\A tr \in 1..travs :
            (TravSeq(tr) # <<>> /\ Acyclic(StartUnit(tr), FALSE)) =>
                UnitsRun(tr) <= LongestPath(StartUnit(tr)))
    /\ (AcyclicRun ~> Ended)
    /\ [][Spinning => Spinning']_vars
    /\ (Spinning ~> (Spinning /\ steps = MaxSteps))

\* the three-level nested pipeline has ended, each traversal having run every
\* unit of its longest path
C38_Witness ==
    /\ cfg.scn = "nested" /\ NestedWired /\ status["main"] = "resolved"
    /\ travs = 3
    /\ \A tr \in 1..travs : UnitsRun(tr) = LongestPath(StartUnit(tr))
    /\ \E tr \in 1..travs : UnitsRun(tr) = 2

\* the loop has run MaxSteps units and has not ended
SpinsToTheBound == Spinning /\ steps = MaxSteps /\ UnitsRun(1) = MaxSteps

====
